---------------------------- MODULE Spec2Model ----------------------------
(***************************************************************************)
(* Model of the RIR-study cohort pipeline.  The repository holds two       *)
(* scripts that implement the same pipeline with variant logic:            *)
(*                                                                         *)
(*   scripts/02_process_data.py                                            *)
(*   scripts/02_build_cohort.py   (suffix _bc where a name clashes)        *)
(*                                                                         *)
(* Data representation.  A cell of a table is NaN (missing) or a           *)
(* one-element tuple holding its value.  Measurements are fixed-point      *)
(* integers counting TENTHS of the unit (LBXTC = 2000 is 200.0 mg/dL,      *)
(* hscrp = 25 is 2.5 mg/L), so that TG/5 and CRP*10 are exact; ages,       *)
(* codes, identifiers, weights and flags are plain integers.  A drug name  *)
(* is a tuple of one-character strings, so that substring search and case  *)
(* folding are computed.  Column names are those of the NHANES files,      *)
(* which are upper case already (the scripts' .upper() leaves them alone). *)
(* A table is [cols, rows]: the set of its column names and the sequence   *)
(* of its rows, each row a function from cols to cells.                    *)
(***************************************************************************)
EXTENDS Integers, Sequences, FiniteSets, TLC

(***************************************************************************)
(* Bounds of the model.                                                    *)
(***************************************************************************)
\* Number of survey cycles the run iterates over (a prefix of CYCLES).
NumCycles == 2
\* Participants 1..MaxSEQN appear in a cycle's demographics file.
MaxSEQN == 1
\* Largest number of rows of a medication table handed to the classifier.
MaxRxRows == 2

(***************************************************************************)
(* Cells                                                                   *)
(***************************************************************************)
NaN == <<>>

Num(x) == <<x>>

isna(c) == c = NaN

notna(c) == c # NaN

Val(c) == c[1]

\* Tenths of a unit: T(70) is 70.0.
T(x) == 10 * x

\* Comparisons of a cell with a number; with NaN every comparison is False.
ge(c, n) == notna(c) /\ Val(c) >= n

le(c, n) == notna(c) /\ Val(c) <= n

lt(c, n) == notna(c) /\ Val(c) < n

eq(c, n) == notna(c) /\ Val(c) = n

\* Series.fillna(other)
fillna(c, other) == IF isna(c) THEN other ELSE c

\* (boolean).astype(int)
astype_int(b) == IF b THEN Num(1) ELSE Num(0)

(***************************************************************************)
(* Tables (pandas DataFrame)                                               *)
(***************************************************************************)
DataFrame(cols, rows) == [cols |-> cols, rows |-> rows]

EmptyDataFrame == [cols |-> {}, rows |-> <<>>]

\* DataFrame.empty: some axis has length 0.
empty(t) == t.cols = {} \/ t.rows = <<>>

len(t) == Len(t.rows)

\* df.get(col, NaN) for one row
get(t, r, col) == IF col \in t.cols THEN r[col] ELSE NaN

\* df[col] = f(row), adding the column or overwriting it
SetCol(t, col, F(_)) ==
    [cols |-> t.cols \cup {col},
     rows |-> [i \in DOMAIN t.rows |-> (col :> F(t.rows[i])) @@ t.rows[i]]]

\* df[[c for c in wanted if c in df.columns]]
Select(t, wanted) ==
    LET keep == t.cols \cap wanted
    IN  [cols |-> keep,
         rows |-> [i \in DOMAIN t.rows |-> [c \in keep |-> t.rows[i][c]]]]

\* df[mask]
Filter(t, Keep(_)) == [cols |-> t.cols, rows |-> SelectSeq(t.rows, Keep)]

RECURSIVE Flatten(_)
Flatten(ss) == IF ss = <<>> THEN <<>> ELSE Head(ss) \o Flatten(Tail(ss))

\* The column name the right table's column c gets in a merge: an overlapping
\* column takes the right suffix (the left suffix is '' or the default '_x').
MergedName(left, c, rsuffix) == IF c \in left.cols THEN c \o rsuffix ELSE c

\* left.merge(right, on='SEQN', how='inner', suffixes=('', rsuffix))
merge_inner(left, right, rsuffix) ==
    LET rc == right.cols \ {"SEQN"}
        newcols == {MergedName(left, c, rsuffix) : c \in rc}
        Src(n) == CHOOSE c \in rc : MergedName(left, c, rsuffix) = n
        Joined(l, r) == [n \in newcols |-> r[Src(n)]] @@ l
        Matches(l) == SelectSeq(right.rows, LAMBDA r : r["SEQN"] = l["SEQN"])
        Out(l) == [k \in DOMAIN Matches(l) |-> Joined(l, Matches(l)[k])]
    IN  [cols |-> left.cols \cup newcols,
         rows |-> Flatten([i \in DOMAIN left.rows |-> Out(left.rows[i])])]

\* left.merge(right, on='SEQN', how='left', suffixes=('', rsuffix)); both
\* tables hold the column SEQN.
merge(left, right, rsuffix) ==
    LET rc == right.cols \ {"SEQN"}
        newcols == {MergedName(left, c, rsuffix) : c \in rc}
        Src(n) == CHOOSE c \in rc : MergedName(left, c, rsuffix) = n
        Joined(l, r) == [n \in newcols |-> r[Src(n)]] @@ l
        Missing(l) == [n \in newcols |-> NaN] @@ l
        Matches(l) == SelectSeq(right.rows, LAMBDA r : r["SEQN"] = l["SEQN"])
        Out(l) == IF Matches(l) = <<>>
                  THEN <<Missing(l)>>
                  ELSE [k \in DOMAIN Matches(l) |-> Joined(l, Matches(l)[k])]
    IN  [cols |-> left.cols \cup newcols,
         rows |-> Flatten([i \in DOMAIN left.rows |-> Out(left.rows[i])])]

\* pd.concat(tables, ignore_index=True): the union of the columns, a table's
\* absent columns all-missing for its rows.
concat(tables) ==
    LET cols == UNION {tables[i].cols : i \in DOMAIN tables}
        Widen(r) == r @@ [c \in cols |-> NaN]
    IN  [cols |-> cols,
         rows |-> Flatten([i \in DOMAIN tables |->
                     [k \in DOMAIN tables[i].rows |-> Widen(tables[i].rows[k])]])]

(***************************************************************************)
(* Strings                                                                 *)
(***************************************************************************)
UPPERCASE == <<"A", "B", "C", "D", "E", "F", "G", "H", "I", "J", "K", "L", "M",
               "N", "O", "P", "Q", "R", "S", "T", "U", "V", "W", "X", "Y", "Z">>

LOWERCASE == <<"a", "b", "c", "d", "e", "f", "g", "h", "i", "j", "k", "l", "m",
               "n", "o", "p", "q", "r", "s", "t", "u", "v", "w", "x", "y", "z">>

\* str.lower()
lower(s) ==
    [i \in DOMAIN s |->
        IF \E k \in DOMAIN UPPERCASE : UPPERCASE[k] = s[i]
        THEN LOWERCASE[CHOOSE k \in DOMAIN UPPERCASE : UPPERCASE[k] = s[i]]
        ELSE s[i]]

\* sub in s
contains(s, sub) ==
    \E k \in 0..(Len(s) - Len(sub)) : SubSeq(s, k + 1, k + Len(sub)) = sub

\* str(cell) of a text cell: the text, and 'nan' for a missing one
str(c) == IF isna(c) THEN <<"n", "a", "n">> ELSE Val(c)

(***************************************************************************)
(* Statin identification                                                   *)
(***************************************************************************)
atorvastatin == <<"a", "t", "o", "r", "v", "a", "s", "t", "a", "t", "i", "n">>
simvastatin == <<"s", "i", "m", "v", "a", "s", "t", "a", "t", "i", "n">>
rosuvastatin == <<"r", "o", "s", "u", "v", "a", "s", "t", "a", "t", "i", "n">>
pravastatin == <<"p", "r", "a", "v", "a", "s", "t", "a", "t", "i", "n">>
lovastatin == <<"l", "o", "v", "a", "s", "t", "a", "t", "i", "n">>
fluvastatin == <<"f", "l", "u", "v", "a", "s", "t", "a", "t", "i", "n">>
pitavastatin == <<"p", "i", "t", "a", "v", "a", "s", "t", "a", "t", "i", "n">>
vytorin == <<"v", "y", "t", "o", "r", "i", "n">>
caduet == <<"c", "a", "d", "u", "e", "t">>
advicor == <<"a", "d", "v", "i", "c", "o", "r">>

\* 02_process_data.py: generic names, combination products, brand names
STATIN_NAMES ==
    LET amlodipine == <<"a", "m", "l", "o", "d", "i", "p", "i", "n", "e">>
        ezetimibe == <<"e", "z", "e", "t", "i", "m", "i", "b", "e">>
        niacin == <<"n", "i", "a", "c", "i", "n">>
        slash == <<"/">>
    IN  << atorvastatin, simvastatin, rosuvastatin, pravastatin, lovastatin,
           fluvastatin, pitavastatin,
           atorvastatin \o slash \o amlodipine,
           simvastatin \o slash \o ezetimibe,
           simvastatin \o slash \o niacin,
           atorvastatin \o slash \o ezetimibe,
           rosuvastatin \o slash \o ezetimibe,
           lovastatin \o slash \o niacin,
           <<"l", "i", "p", "i", "t", "o", "r">>,
           <<"z", "o", "c", "o", "r">>,
           <<"c", "r", "e", "s", "t", "o", "r">>,
           <<"p", "r", "a", "v", "a", "c", "h", "o", "l">>,
           <<"m", "e", "v", "a", "c", "o", "r">>,
           <<"l", "e", "s", "c", "o", "l">>,
           <<"l", "i", "v", "a", "l", "o">>,
           vytorin, caduet, advicor >>

STATIN_THERAPEUTIC_CLASSES == {"358"}

\* 02_build_cohort.py
STATIN_PATTERNS ==
    << atorvastatin, fluvastatin, lovastatin, pitavastatin, pravastatin,
       rosuvastatin, simvastatin, vytorin, advicor, caduet,
       <<"l", "i", "p", "t", "r", "u", "z", "e", "t">> >>

\* 02_build_cohort.py: defined, and read by no function of the script
STATIN_CLASS_CODES == {"CV350", "CV351", "CV352", "CV359"}

\* any(statin in drug_name for statin in STATIN_NAMES)
NameIsStatin(drug_name) ==
    \E k \in DOMAIN STATIN_NAMES : contains(drug_name, STATIN_NAMES[k])

\* Method 1 of identify_statin_users (02_process_data.py): the participants
\* with a row whose drug name, lower-cased, contains a statin name
StatinUsersByName(rxq_df) ==
    {rxq_df.rows[i]["SEQN"] : i \in
        {j \in DOMAIN rxq_df.rows :
            \E col \in {"RXDDRUG", "RXDRUG"} \cap rxq_df.cols :
                NameIsStatin(lower(str(rxq_df.rows[j][col])))}}

\* str(cell) of a class-code cell: the code, and 'nan' for a missing one
str_code(c) == IF isna(c) THEN "nan" ELSE Val(c)

ClassCols == {"RXDDCI1A", "RXDDCI1B", "RXDDCI1C", "RXDDCI2A", "RXDDCI2B", "RXDDCI2C"}

\* Method 2: the participants with a row whose class code is a statin class
StatinUsersByClass(rxq_df) ==
    {rxq_df.rows[i]["SEQN"] : i \in
        {j \in DOMAIN rxq_df.rows :
            \E col \in ClassCols \cap rxq_df.cols :
                str_code(rxq_df.rows[j][col]) \in STATIN_THERAPEUTIC_CLASSES}}

\* The set statin_users after both methods have added to it
StatinUserSet(rxq_df) == StatinUsersByName(rxq_df) \cup StatinUsersByClass(rxq_df)

\* Series.unique(): the distinct values in order of first appearance
RECURSIVE unique(_)
unique(s) ==
    IF s = <<>> THEN <<>>
    ELSE LET front == unique(SubSeq(s, 1, Len(s) - 1))
             last == s[Len(s)]
         IN  IF \E k \in DOMAIN front : front[k] = last
             THEN front ELSE Append(front, last)

\* 02_process_data.py identify_statin_users: a table SEQN, statin_user
identify_statin_users(rxq_df) ==
    IF empty(rxq_df) \/ "SEQN" \notin rxq_df.cols
    THEN DataFrame({"SEQN", "statin_user"}, <<>>)
    ELSE LET statin_users == StatinUserSet(rxq_df)
             all_seqn == unique([i \in DOMAIN rxq_df.rows |-> rxq_df.rows[i]["SEQN"]])
         IN  DataFrame({"SEQN", "statin_user"},
                 [k \in DOMAIN all_seqn |->
                     [c \in {"SEQN", "statin_user"} |->
                         IF c = "SEQN" THEN all_seqn[k]
                         ELSE astype_int(all_seqn[k] \in statin_users)]])

\* The group keys of groupby('SEQN'): ascending, a missing key in no group
sorted(keys) ==
    [k \in 1..Cardinality(keys) |->
        CHOOSE c \in keys : Cardinality({d \in keys : Val(d) < Val(c)}) = k - 1]

\* 02_build_cohort.py: the first drug-name column the table holds, or none
DrugCol(rx_df) ==
    IF "RXDDRUG" \in rx_df.cols THEN <<"RXDDRUG">>
    ELSE IF "RXD240B" \in rx_df.cols THEN <<"RXD240B">>
    ELSE IF "RXDDRGID" \in rx_df.cols THEN <<"RXDDRGID">>
    ELSE <<>>

\* drug_lower.str.contains('|'.join(STATIN_PATTERNS), regex=True)
MatchesStatinPattern(drug_lower) ==
    \E k \in DOMAIN STATIN_PATTERNS : contains(drug_lower, STATIN_PATTERNS[k])

\* 02_build_cohort.py identify_statin_users: a Series indexed by SEQN, given
\* here as the table SEQN, is_statin.  groupby('SEQN') raises KeyError on a
\* table without that column.
identify_statin_users_bc(rx_df) ==
    IF empty(rx_df) THEN [raised |-> FALSE, series |-> DataFrame({"SEQN", "is_statin"}, <<>>)]
    ELSE IF DrugCol(rx_df) = <<>>
    THEN [raised |-> FALSE, series |-> DataFrame({"SEQN", "is_statin"}, <<>>)]
    ELSE IF "SEQN" \notin rx_df.cols
    THEN [raised |-> TRUE, series |-> EmptyDataFrame]
    ELSE LET drug_col == DrugCol(rx_df)[1]
             is_statin(r) == MatchesStatinPattern(lower(str(r[drug_col])))
             keys == sorted({rx_df.rows[i]["SEQN"] : i \in DOMAIN rx_df.rows} \ {NaN})
             any(seqn) == \E i \in DOMAIN rx_df.rows :
                             rx_df.rows[i]["SEQN"] = seqn /\ is_statin(rx_df.rows[i])
         IN  [raised |-> FALSE,
              series |-> DataFrame({"SEQN", "is_statin"},
                 [k \in DOMAIN keys |->
                     [c \in {"SEQN", "is_statin"} |->
                         IF c = "SEQN" THEN keys[k] ELSE astype_int(any(keys[k]))]])]


(***************************************************************************)
(* Raw data: one directory per cycle, holding files.  A file is named by   *)
(* its dataset (DEMO_D.xpt, P_DEMO.xpt: "DEMO"), which is all the scripts' *)
(* glob patterns tell apart; the listing order is the order glob yields.   *)
(***************************************************************************)
CYCLES == <<"2005-2006", "2007-2008", "2009-2010", "2015-2016", "2017-2020">>

File(name, ext, readable, table) ==
    [name |-> name, ext |-> ext, readable |-> readable, table |-> table]

\* Whether a file name contains the pattern: among the dataset names of the
\* download script only HSCRP contains another one's (CRP), and BPXO (BPX).
NameContains(name, pattern) ==
    \/ name = pattern
    \/ name = "HSCRP" /\ pattern = "CRP"
    \/ name = "BPXO" /\ pattern = "BPX"

\* pd.read_sas in try/except: the table, or an empty one for a file that
\* cannot be read
load_xpt(file) == IF file.readable THEN file.table ELSE EmptyDataFrame

\* The lines load_xpt prints: in the except branch the warning with
\* filepath.name, the file's name and extension
load_xpt_warning(file) == IF file.readable THEN <<>> ELSE <<file.name \o file.ext>>

\* 02_process_data.py find_file: glob("*pattern*.XPT"), then "*pattern*.xpt";
\* <<>> is None
find_file(cycle_dir, pattern) ==
    LET Hits(ext) == SelectSeq(cycle_dir.files,
                        LAMBDA f : NameContains(f.name, pattern) /\ f.ext = ext)
    IN  IF Hits(".XPT") # <<>> THEN <<Hits(".XPT")[1]>>
        ELSE IF Hits(".xpt") # <<>> THEN <<Hits(".xpt")[1]>>
        ELSE <<>>

\* 02_build_cohort.py find_file: glob("*pattern*")
find_file_bc(cycle_dir, pattern) ==
    LET hits == SelectSeq(cycle_dir.files, LAMBDA f : NameContains(f.name, pattern))
    IN  IF hits # <<>> THEN <<hits[1]>> ELSE <<>>

(***************************************************************************)
(* 02_process_data.py: process_cycle                                       *)
(***************************************************************************)
demo_cols == {"SEQN", "RIDAGEYR", "RIAGENDR", "RIDRETH1", "RIDRETH3", "DMDEDUC2",
              "INDFMPIR", "WTMEC2YR", "WTINT2YR", "SDMVPSU", "SDMVSTRA"}

\* Lines 178-182: the pre-pandemic weight names copied over the standard ones
RenamePrepandemicWeights(df) ==
    LET mec == IF "WTMECPRP" \in df.cols
               THEN SetCol(df, "WTMEC2YR", LAMBDA r : r["WTMECPRP"]) ELSE df
    IN  IF "WTINTPRP" \in mec.cols
        THEN SetCol(mec, "WTINT2YR", LAMBDA r : r["WTINTPRP"]) ELSE mec

\* One component file: resolved, loaded, cut to SEQN and the wanted columns,
\* left-joined when it holds at least min_cols of them.
MergeComponent(df, cycle_dir, pattern, wanted, min_cols) ==
    LET f == find_file(cycle_dir, pattern)
    IN  IF f = <<>> THEN df
        ELSE LET t == load_xpt(f[1])
             IN  IF empty(t) THEN df
                 ELSE LET kept == Select(t, {"SEQN"} \cup wanted)
                      IN  IF Cardinality(kept.cols) >= min_cols
                          THEN merge(df, kept, "_y") ELSE df

\* Lines 189-206: the laboratory files, in the order of lab_files
MergeLabs(df, cycle_dir) ==
    LET tc == MergeComponent(df, cycle_dir, "TCHOL", {"LBXTC"}, 2)
        hdl == MergeComponent(tc, cycle_dir, "HDL", {"LBDHDD", "LBXHDD"}, 2)
        tg == MergeComponent(hdl, cycle_dir, "TRIGLY", {"LBXTR", "WTSAF2YR", "WTSAFPRP"}, 2)
        ghb == MergeComponent(tg, cycle_dir, "GHB", {"LBXGH"}, 2)
    IN  MergeComponent(ghb, cycle_dir, "GLU", {"LBXGLU"}, 2)

\* Lines 210-222: HSCRP tried first, CRP only when HSCRP did not load
MergeCrp(df, cycle_dir) ==
    LET first == MergeComponent(df, cycle_dir, "HSCRP", {"LBXHSCRP", "LBXCRP"}, 2)
        hs == find_file(cycle_dir, "HSCRP")
        crp_loaded == /\ hs # <<>>
                      /\ ~empty(load_xpt(hs[1]))
                      /\ load_xpt(hs[1]).cols \cap {"LBXHSCRP", "LBXCRP"} # {}
    IN  IF crp_loaded THEN first
        ELSE MergeComponent(df, cycle_dir, "CRP", {"LBXHSCRP", "LBXCRP"}, 2)

\* Lines 228-250: body measures, then blood pressure (BPX, else BPXO)
MergeExam(df, cycle_dir) ==
    LET bmx == MergeComponent(df, cycle_dir, "BMX", {"BMXBMI", "BMXWT", "BMXHT"}, 1)
        bp_cols == {"BPXSY1", "BPXSY2", "BPXSY3", "BPXDI1", "BPXDI2", "BPXDI3",
                    "BPXOSY1", "BPXOSY2", "BPXOSY3", "BPXODI1", "BPXODI2", "BPXODI3"}
    IN  IF find_file(cycle_dir, "BPX") # <<>>
        THEN MergeComponent(bmx, cycle_dir, "BPX", bp_cols, 1)
        ELSE MergeComponent(bmx, cycle_dir, "BPXO", bp_cols, 1)

\* Lines 256-283: the questionnaires
MergeQuestionnaires(df, cycle_dir) ==
    LET diq == MergeComponent(df, cycle_dir, "DIQ", {"DIQ010", "DIQ050", "DIQ070"}, 1)
        bpq == MergeComponent(diq, cycle_dir, "BPQ", {"BPQ020", "BPQ040A"}, 1)
    IN  MergeComponent(bpq, cycle_dir, "SMQ", {"SMQ020", "SMQ040"}, 1)

\* Lines 288-299: the statin flag.  A participant without a row of statin_df
\* gets 0 (fillna); without a prescription file everybody gets 0; with a file
\* that loads empty, or yields an empty statin_df, the column is not made.
MergeStatin(df, cycle_dir) ==
    LET rxq_file == find_file(cycle_dir, "RXQ_RX")
    IN  IF rxq_file = <<>>
        THEN SetCol(df, "statin_user", LAMBDA r : Num(0))
        ELSE LET rxq_df == load_xpt(rxq_file[1])
                 statin_df == identify_statin_users(rxq_df)
             IN  IF empty(rxq_df) \/ empty(statin_df) THEN df
                 ELSE LET merged == merge(df, statin_df, "_y")
                      IN  SetCol(merged, "statin_user",
                                 LAMBDA r : fillna(r["statin_user"], Num(0)))

process_cycle(cycle, cycle_dir) ==
    IF ~cycle_dir.exists THEN EmptyDataFrame
    ELSE LET demo_file == find_file(cycle_dir, "DEMO")
         IN  IF demo_file = <<>> THEN EmptyDataFrame
             ELSE LET demo == load_xpt(demo_file[1])
                  IN  IF empty(demo) THEN EmptyDataFrame
                      ELSE LET kept == Select(RenamePrepandemicWeights(demo), demo_cols)
                               labs == MergeLabs(kept, cycle_dir)
                               crp == MergeCrp(labs, cycle_dir)
                               exam == MergeExam(crp, cycle_dir)
                               quest == MergeQuestionnaires(exam, cycle_dir)
                               rx == MergeStatin(quest, cycle_dir)
                           IN  SetCol(rx, "cycle", LAMBDA r : <<cycle>>)


(***************************************************************************)
(* 02_process_data.py: calculate_ldl, harmonize_variables                  *)
(***************************************************************************)
\* tc - hdl - (tg / 5) then .where(tg < 400); direct_ldl is <<>> for None or
\* <<cell>>.  Lipids are whole mg/dL (tenths divisible by 5): tg / 5 is exact.
calculate_ldl(tc, hdl, tg, direct_ldl) ==
    LET friedewald == IF isna(tc) \/ isna(hdl) \/ isna(tg) THEN NaN
                      ELSE Num(Val(tc) - Val(hdl) - (Val(tg) \div 5))
        ldl_calc == IF lt(tg, T(400)) THEN friedewald ELSE NaN
    IN  IF direct_ldl # <<>> THEN fillna(ldl_calc, direct_ldl[1]) ELSE ldl_calc

\* Lines 316-318
HarmonizeCrp(df, r) == fillna(get(df, r, "LBXHSCRP"), get(df, r, "LBXCRP"))

\* Lines 326-331: the column is chosen once for the whole table
HarmonizeHdl(df, r) ==
    IF "LBDHDD" \in df.cols THEN r["LBDHDD"]
    ELSE IF "LBXHDD" \in df.cols THEN r["LBXHDD"]
    ELSE NaN

\* Lines 342-344
HarmonizeFastingWeight(df, r) == fillna(get(df, r, "WTSAF2YR"), get(df, r, "WTSAFPRP"))

\* Line 351
HarmonizeRaceEth(df, r) == get(df, r, "RIDRETH1")

\* Lines 388-395.  HbA1c is in tenths of a percent, glucose in tenths of mg/dL.
Diabetes(df, r) ==
    LET any == \/ ge(r["hba1c"], 65)
               \/ ge(r["fasting_glucose"], T(126))
               \/ eq(get(df, r, "DIQ010"), 1)
               \/ eq(get(df, r, "DIQ050"), 1)
               \/ eq(get(df, r, "DIQ070"), 1)
    IN  IF isna(r["hba1c"]) /\ isna(r["fasting_glucose"]) /\ isna(r["DIQ010"])
        THEN NaN ELSE astype_int(any)

\* Lines 398-404 less line 402: prediabetes by the laboratory values alone
prediabetes_by_labs(r) ==
    LET pre == \/ ge(r["hba1c"], 57) /\ lt(r["hba1c"], 65)
               \/ ge(r["fasting_glucose"], T(100)) /\ lt(r["fasting_glucose"], T(126))
    IN  IF isna(r["hba1c"]) /\ isna(r["fasting_glucose"]) THEN NaN
        ELSE astype_int(pre)

\* Lines 398-404
Prediabetes(r) ==
    LET pre == \/ ge(r["hba1c"], 57) /\ lt(r["hba1c"], 65)
               \/ ge(r["fasting_glucose"], T(100)) /\ lt(r["fasting_glucose"], T(126))
    IN  IF isna(r["hba1c"]) /\ isna(r["fasting_glucose"]) THEN NaN
        ELSE IF eq(r["diabetes"], 1) THEN Num(0)
        ELSE astype_int(pre)

\* Lines 407-410
GlycemicStatus(r) ==
    IF isna(r["diabetes"]) /\ isna(r["prediabetes"]) THEN NaN
    ELSE IF eq(r["diabetes"], 1) THEN Num(2)
    ELSE IF eq(r["prediabetes"], 1) THEN Num(1)
    ELSE Num(0)

\* The list selections df[['hba1c', 'fasting_glucose', 'DIQ010']] (line 395)
\* and df[[..., 'BPQ040A']] (line 418) raise KeyError on a table without the
\* column, and smoke_now.isin (line 426) AttributeError when SMQ040 is absent
\* (df.get then returns the float nan).
HarmonizeRaises(df) ==
    \/ "DIQ010" \notin df.cols
    \/ "BPQ040A" \notin df.cols
    \/ "SMQ040" \notin df.cols

\* The columns the properties below read; blood pressure means, BMI, smoking and the
\* flags made of them are computed by the script and left out here: nothing
\* below reads them.
harmonize_variables(df) ==
    LET c1 == SetCol(df, "hscrp", LAMBDA r : HarmonizeCrp(df, r))
        c2 == SetCol(c1, "total_chol", LAMBDA r : get(df, r, "LBXTC"))
        c3 == SetCol(c2, "hdl", LAMBDA r : HarmonizeHdl(df, r))
        c4 == SetCol(c3, "trigly", LAMBDA r : get(df, r, "LBXTR"))
        c5 == SetCol(c4, "ldl_calc",
                  LAMBDA r : calculate_ldl(r["total_chol"], r["hdl"], r["trigly"], <<>>))
        c6 == SetCol(c5, "fasting_weight", LAMBDA r : HarmonizeFastingWeight(df, r))
        c7 == SetCol(c6, "age", LAMBDA r : get(df, r, "RIDAGEYR"))
        c8 == SetCol(c7, "race_eth", LAMBDA r : HarmonizeRaceEth(df, r))
        c9 == SetCol(c8, "hba1c", LAMBDA r : get(df, r, "LBXGH"))
        c10 == SetCol(c9, "fasting_glucose", LAMBDA r : get(df, r, "LBXGLU"))
        c11 == SetCol(c10, "psu", LAMBDA r : get(df, r, "SDMVPSU"))
        c12 == SetCol(c11, "strata", LAMBDA r : get(df, r, "SDMVSTRA"))
        c13 == SetCol(c12, "mec_weight", LAMBDA r : get(df, r, "WTMEC2YR"))
    IN  IF HarmonizeRaises(df) THEN [raised |-> TRUE, df |-> df]
        ELSE LET c14 == SetCol(c13, "diabetes", LAMBDA r : Diabetes(c13, r))
                 c15 == SetCol(c14, "prediabetes", LAMBDA r : Prediabetes(r))
                 c16 == SetCol(c15, "glycemic_status", LAMBDA r : GlycemicStatus(r))
             IN  [raised |-> FALSE, df |-> c16]

(***************************************************************************)
(* 02_process_data.py: create_rir_cohort                                   *)
(***************************************************************************)
\* The seven inclusion steps, in the order of lines 458-484
FilterStep(n, r) ==
    CASE n = 1 -> ge(r["age"], 20)
      [] n = 2 -> notna(r["hscrp"])
      [] n = 3 -> le(r["hscrp"], T(10))
      [] n = 4 -> notna(r["statin_user"])
      [] n = 5 -> notna(r["ldl_calc"])
      [] n = 6 -> notna(r["fasting_weight"])
      [] n = 7 -> notna(r["psu"]) /\ notna(r["strata"])

NumFilterSteps == 7

\* Step n applied to the starting table rather than to the table step n - 1 left
StepAlone(df, n) ==
    IF n = 0 THEN df
    ELSE Filter(df, LAMBDA r : FilterStep(n, r))

\* The table after the first n steps
RECURSIVE AfterStep(_, _)
AfterStep(df, n) ==
    IF n = 0 THEN df
    ELSE Filter(AfterStep(df, n - 1), LAMBDA r : FilterStep(n, r))

\* Lines 520-528 with < in place of <=
ldl_category_below(ldl) ==
    IF isna(ldl) THEN NaN
    ELSE IF Val(ldl) < T(70) THEN Num(1)
    ELSE IF Val(ldl) < T(130) THEN Num(2)
    ELSE Num(3)

\* Lines 520-528
ldl_category(ldl) ==
    IF isna(ldl) THEN NaN
    ELSE IF Val(ldl) <= T(70) THEN Num(1)
    ELSE IF Val(ldl) <= T(130) THEN Num(2)
    ELSE Num(3)

\* Lines 539-549 with the statin and no-statin groups exchanged
ldl_statin_group_exchanged(r) ==
    IF isna(r["ldl_cat"]) \/ isna(r["statin_user"]) THEN NaN
    ELSE IF Val(r["ldl_cat"]) = 1 THEN (IF Val(r["statin_user"]) = 1 THEN Num(2) ELSE Num(1))
    ELSE IF Val(r["ldl_cat"]) = 2 THEN (IF Val(r["statin_user"]) = 1 THEN Num(4) ELSE Num(3))
    ELSE (IF Val(r["statin_user"]) = 1 THEN Num(6) ELSE Num(5))

\* Lines 539-549
ldl_statin_group(r) ==
    IF isna(r["ldl_cat"]) \/ isna(r["statin_user"]) THEN NaN
    ELSE IF Val(r["ldl_cat"]) = 1 THEN (IF Val(r["statin_user"]) = 1 THEN Num(1) ELSE Num(2))
    ELSE IF Val(r["ldl_cat"]) = 2 THEN (IF Val(r["statin_user"]) = 1 THEN Num(3) ELSE Num(4))
    ELSE (IF Val(r["statin_user"]) = 1 THEN Num(5) ELSE Num(6))

\* Lines 486-551 with the hs-CRP flags of rir and rir_strict exchanged
RirVariables_exchanged(df) ==
    LET v1 == SetCol(df, "ldl_under_70", LAMBDA r : astype_int(lt(r["ldl_calc"], T(70))))
        v2 == SetCol(v1, "ldl_under_55", LAMBDA r : astype_int(lt(r["ldl_calc"], T(55))))
        v3 == SetCol(v2, "hscrp_high", LAMBDA r : astype_int(ge(r["hscrp"], T(2))))
        v4 == SetCol(v3, "hscrp_very_high", LAMBDA r : astype_int(ge(r["hscrp"], T(3))))
        v5 == SetCol(v4, "rir", LAMBDA r : astype_int(
                  eq(r["statin_user"], 1) /\ eq(r["ldl_under_70"], 1)
                  /\ eq(r["hscrp_very_high"], 1)))
        v6 == SetCol(v5, "rir_strict", LAMBDA r : astype_int(
                  eq(r["statin_user"], 1) /\ eq(r["ldl_under_70"], 1) /\ eq(r["hscrp_high"], 1)))
        v7 == SetCol(v6, "rir_ldl55", LAMBDA r : astype_int(
                  eq(r["statin_user"], 1) /\ eq(r["ldl_under_55"], 1) /\ eq(r["hscrp_high"], 1)))
        v8 == SetCol(v7, "ldl_cat", LAMBDA r : ldl_category(r["ldl_calc"]))
    IN  SetCol(v8, "ldl_statin_group", LAMBDA r : ldl_statin_group(r))

\* Lines 486-551
RirVariables(df) ==
    LET v1 == SetCol(df, "ldl_under_70", LAMBDA r : astype_int(lt(r["ldl_calc"], T(70))))
        v2 == SetCol(v1, "ldl_under_55", LAMBDA r : astype_int(lt(r["ldl_calc"], T(55))))
        v3 == SetCol(v2, "hscrp_high", LAMBDA r : astype_int(ge(r["hscrp"], T(2))))
        v4 == SetCol(v3, "hscrp_very_high", LAMBDA r : astype_int(ge(r["hscrp"], T(3))))
        v5 == SetCol(v4, "rir", LAMBDA r : astype_int(
                  eq(r["statin_user"], 1) /\ eq(r["ldl_under_70"], 1) /\ eq(r["hscrp_high"], 1)))
        v6 == SetCol(v5, "rir_strict", LAMBDA r : astype_int(
                  eq(r["statin_user"], 1) /\ eq(r["ldl_under_70"], 1)
                  /\ eq(r["hscrp_very_high"], 1)))
        v7 == SetCol(v6, "rir_ldl55", LAMBDA r : astype_int(
                  eq(r["statin_user"], 1) /\ eq(r["ldl_under_55"], 1) /\ eq(r["hscrp_high"], 1)))
        v8 == SetCol(v7, "ldl_cat", LAMBDA r : ldl_category(r["ldl_calc"]))
    IN  SetCol(v8, "ldl_statin_group", LAMBDA r : ldl_statin_group(r))

\* df['statin_user'] raises KeyError when no cycle made the column (line 471).
\* When some cycle did not, concat leaves the column float64, and the summary's
\* df['statin_user'] & df['ldl_under_70'] (line 558) raises TypeError on the
\* first surviving row.
CohortRaises(df) ==
    \/ "statin_user" \notin df.cols
    \/ /\ \E i \in DOMAIN df.rows : isna(df.rows[i]["statin_user"])
       /\ len(AfterStep(df, NumFilterSteps)) > 0

\* Lines 455-514 without the design-variable step of lines 481-484
create_rir_cohort_six_steps(df) ==
    IF CohortRaises(df) THEN [raised |-> TRUE, counts |-> <<>>, df |-> df]
    ELSE [raised |-> FALSE,
          counts |-> [n \in 1..(NumFilterSteps + 1) |-> len(AfterStep(df, n - 1))],
          df |-> RirVariables(AfterStep(df, NumFilterSteps - 1))]

\* counts[1] is the starting N, counts[n + 1] the N printed after step n
create_rir_cohort(df) ==
    IF CohortRaises(df) THEN [raised |-> TRUE, counts |-> <<>>, df |-> df]
    ELSE [raised |-> FALSE,
          counts |-> [n \in 1..(NumFilterSteps + 1) |-> len(AfterStep(df, n - 1))],
          df |-> RirVariables(AfterStep(df, NumFilterSteps))]

analysis_vars ==
    {"SEQN", "cycle", "psu", "strata", "mec_weight", "fasting_weight",
     "age", "sex", "race_eth", "education", "pir",
     "hscrp", "ldl_calc", "total_chol", "hdl", "trigly",
     "hba1c", "fasting_glucose", "sbp_mean", "dbp_mean", "bmi",
     "statin_user", "diabetes", "prediabetes", "glycemic_status",
     "hypertension", "current_smoker", "smoking_status", "obese",
     "ldl_under_70", "ldl_under_55", "hscrp_high", "hscrp_very_high",
     "rir", "rir_strict", "rir_ldl55", "ldl_cat", "ldl_statin_group"}


(***************************************************************************)
(* 02_build_cohort.py: process_cycle                                       *)
(***************************************************************************)
components == <<"CRP", "HSCRP", "TCHOL", "HDL", "TRIGLY", "FASTQX", "BMX", "BPX",
                "BPXO", "BPQ", "DIQ", "GHB", "GLU", "SMQ", "MCQ">>

\* Lines 210-216: the whole component file is left-joined, an overlapping
\* column suffixed with the pattern.  df.merge(on='SEQN') raises KeyError when
\* df, loaded from an unreadable DEMO file, has no such column.
RECURSIVE MergeComponents_bc(_, _, _)
MergeComponents_bc(out, cycle_dir, k) ==
    IF k > Len(components) \/ out.raised THEN out
    ELSE LET file_path == find_file_bc(cycle_dir, components[k])
             comp_df == load_xpt(file_path[1])
             next ==
                 IF file_path = <<>> THEN out
                 ELSE IF "SEQN" \in comp_df.cols /\ len(comp_df) > 0
                 THEN IF "SEQN" \in out.df.cols
                      THEN [raised |-> FALSE,
                            df |-> merge(out.df, comp_df, "_" \o components[k])]
                      ELSE [raised |-> TRUE, df |-> out.df]
                 ELSE out
         IN  MergeComponents_bc(next, cycle_dir, k + 1)

\* Lines 219-228: df['SEQN'].map(statin_users).fillna(0).astype(int), and 0
\* for everybody without a prescription file
MergeStatin_bc(df, cycle_dir) ==
    LET rx_file == find_file_bc(cycle_dir, "RXQ_RX")
    IN  IF rx_file = <<>>
        THEN [raised |-> FALSE, df |-> SetCol(df, "statin_use", LAMBDA r : Num(0))]
        ELSE LET statin_users == identify_statin_users_bc(load_xpt(rx_file[1]))
                 Lookup(seqn) ==
                     LET hit == SelectSeq(statin_users.series.rows,
                                          LAMBDA u : u["SEQN"] = seqn)
                     IN  IF hit = <<>> THEN NaN ELSE hit[1]["is_statin"]
             IN  IF statin_users.raised \/ "SEQN" \notin df.cols
                 THEN [raised |-> TRUE, df |-> df]
                 ELSE [raised |-> FALSE,
                       df |-> SetCol(df, "statin_use",
                                 LAMBDA r : fillna(Lookup(r["SEQN"]), Num(0)))]

\* Lines 237-251: the per-cycle renaming, each guarded by column presence
HarmonizeCycle_bc(df) ==
    LET crp == IF "LBXCRP" \in df.cols /\ "LBXHSCRP" \notin df.cols
               THEN SetCol(df, "LBXHSCRP",
                        LAMBDA r : IF isna(r["LBXCRP"]) THEN NaN
                                   ELSE Num(Val(r["LBXCRP"]) * 10))
               ELSE df
        saf == IF "WTSAFPRP" \in crp.cols /\ "WTSAF2YR" \notin crp.cols
               THEN SetCol(crp, "WTSAF2YR", LAMBDA r : r["WTSAFPRP"]) ELSE crp
        mec == IF "WTMECPRP" \in saf.cols /\ "WTMEC2YR" \notin saf.cols
               THEN SetCol(saf, "WTMEC2YR", LAMBDA r : r["WTMECPRP"]) ELSE saf
    IN  IF "LBXHDD" \in mec.cols /\ "LBDHDD" \notin mec.cols
        THEN SetCol(mec, "LBDHDD", LAMBDA r : r["LBXHDD"]) ELSE mec

\* The table, or raised: the exception leaves process_cycle and main
process_cycle_bc(cycle, cycle_dir) ==
    IF ~cycle_dir.exists THEN [raised |-> FALSE, df |-> EmptyDataFrame]
    ELSE LET demo_file == find_file_bc(cycle_dir, "DEMO")
         IN  IF demo_file = <<>> THEN [raised |-> FALSE, df |-> EmptyDataFrame]
             ELSE LET demo == load_xpt(demo_file[1])
                      comp == MergeComponents_bc([raised |-> FALSE, df |-> demo], cycle_dir, 1)
                      rx == MergeStatin_bc(comp.df, cycle_dir)
                      labelled ==
                          SetCol(SetCol(rx.df, "cycle", LAMBDA r : <<cycle>>),
                                 "is_prepandemic", LAMBDA r : <<cycle = "2017-2020">>)
                  IN  IF comp.raised \/ rx.raised THEN [raised |-> TRUE, df |-> demo]
                      ELSE [raised |-> FALSE, df |-> HarmonizeCycle_bc(labelled)]

(***************************************************************************)
(* 02_build_cohort.py: compute_ldl_friedewald, build_analytic_cohort       *)
(***************************************************************************)
\* The Friedewald value with the floor at zero and no limit on triglycerides:
\* compute_ldl_friedewald less its line 115
friedewald_any_trigly(tchol, hdl, trigly) ==
    LET ldl == IF isna(tchol) \/ isna(hdl) \/ isna(trigly) THEN NaN
               ELSE Num(Val(tchol) - Val(hdl) - (Val(trigly) \div 5))
    IN  IF lt(ldl, 0) THEN NaN ELSE ldl

compute_ldl_friedewald(tchol, hdl, trigly) ==
    LET ldl == IF isna(tchol) \/ isna(hdl) \/ isna(trigly) THEN NaN
               ELSE Num(Val(tchol) - Val(hdl) - (Val(trigly) \div 5))
        valid_tg == IF ge(trigly, T(400)) THEN NaN ELSE ldl
    IN  IF lt(valid_tg, 0) THEN NaN ELSE valid_tg

\* Lines 268-271: chosen once for the whole table
RaceEth_bc(df, r) ==
    IF "RIDRETH3" \in df.cols THEN r["RIDRETH3"] ELSE get(df, r, "RIDRETH1")

\* Line 292: df.get('WTMEC2YR', df.get('WTMECPRP', NaN))
MecWeight_bc(df, r) ==
    IF "WTMEC2YR" \in df.cols THEN r["WTMEC2YR"] ELSE get(df, r, "WTMECPRP")

\* Lines 134-141
define_diabetes(df, r) ==
    astype_int(\/ ge(get(df, r, "LBXGH"), 65)
               \/ ge(get(df, r, "LBXGLU"), T(126))
               \/ eq(get(df, r, "DIQ010"), 1))

\* a | b on flag columns
or(a, b) == astype_int(eq(a, 1) \/ eq(b, 1))

\* a & b on flag columns
and(a, b) == astype_int(eq(a, 1) /\ eq(b, 1))

\* df['RIDAGEYR'], df['RIAGENDR'], df['SDMVPSU'], df['SDMVSTRA'] raise
\* KeyError on a table without the column
CohortRaises_bc(df) ==
    ~({"RIDAGEYR", "RIAGENDR", "SDMVPSU", "SDMVSTRA"} \subseteq df.cols)

\* The columns the properties below read; BMI, blood pressure, smoking and CVD history
\* are computed by the script and left out here: nothing below reads them.
\* No row is removed: eligibility is a flag.
build_analytic_cohort(df) ==
    IF CohortRaises_bc(df) THEN [raised |-> TRUE, df |-> df]
    ELSE
    LET c1 == SetCol(df, "age", LAMBDA r : r["RIDAGEYR"])
        c2 == SetCol(c1, "race_eth", LAMBDA r : RaceEth_bc(df, r))
        c3 == SetCol(c2, "hscrp", LAMBDA r : get(df, r, "LBXHSCRP"))
        c4 == SetCol(c3, "tchol", LAMBDA r : get(df, r, "LBXTC"))
        c5 == SetCol(c4, "hdl", LAMBDA r : get(df, r, "LBDHDD"))
        c6 == SetCol(c5, "trigly", LAMBDA r : get(df, r, "LBXTR"))
        c7 == SetCol(c6, "ldl",
                  LAMBDA r : compute_ldl_friedewald(r["tchol"], r["hdl"], r["trigly"]))
        c8 == SetCol(c7, "fasting_weight", LAMBDA r : get(df, r, "WTSAF2YR"))
        c9 == SetCol(c8, "in_fasting_subsample",
                  LAMBDA r : astype_int(notna(r["fasting_weight"])))
        c10 == SetCol(c9, "mec_weight", LAMBDA r : MecWeight_bc(df, r))
        c11 == SetCol(c10, "psu", LAMBDA r : r["SDMVPSU"])
        c12 == SetCol(c11, "strata", LAMBDA r : r["SDMVSTRA"])
        c13 == SetCol(c12, "diabetes", LAMBDA r : define_diabetes(df, r))
        c14 == SetCol(c13, "hba1c", LAMBDA r : get(df, r, "LBXGH"))
        c15 == SetCol(c14, "fasting_glucose", LAMBDA r : get(df, r, "LBXGLU"))
        e1 == SetCol(c15, "age_eligible", LAMBDA r : astype_int(ge(r["age"], 20)))
        e2 == SetCol(e1, "fasting_eligible", LAMBDA r : r["in_fasting_subsample"])
        e3 == SetCol(e2, "crp_available", LAMBDA r : astype_int(notna(r["hscrp"])))
        e4 == SetCol(e3, "ldl_available", LAMBDA r : astype_int(notna(r["ldl"])))
        e5 == SetCol(e4, "crp_valid", LAMBDA r : astype_int(le(r["hscrp"], T(10))))
        e6 == SetCol(e5, "eligible", LAMBDA r : astype_int(
                  /\ eq(r["age_eligible"], 1) /\ eq(r["fasting_eligible"], 1)
                  /\ eq(r["crp_available"], 1) /\ eq(r["ldl_available"], 1)
                  /\ eq(r["crp_valid"], 1)))
        e7 == SetCol(e6, "statin_eligible", LAMBDA r : and(r["eligible"], r["statin_use"]))
        o1 == SetCol(e7, "ldl_lt70", LAMBDA r : astype_int(lt(r["ldl"], T(70))))
        o2 == SetCol(o1, "primary_cohort", LAMBDA r : and(r["statin_eligible"], r["ldl_lt70"]))
        o3 == SetCol(o2, "crp_elevated", LAMBDA r : astype_int(ge(r["hscrp"], T(2))))
        o4 == SetCol(o3, "rir", LAMBDA r : and(r["primary_cohort"], r["crp_elevated"]))
        o5 == SetCol(o4, "rir_crp3", LAMBDA r :
                  astype_int(eq(r["primary_cohort"], 1) /\ ge(r["hscrp"], T(3))))
        o6 == SetCol(o5, "ldl_lt55", LAMBDA r : astype_int(lt(r["ldl"], T(55))))
        o7 == SetCol(o6, "cohort_ldl55", LAMBDA r : and(r["statin_eligible"], r["ldl_lt55"]))
        o8 == SetCol(o7, "rir_ldl55", LAMBDA r : and(r["cohort_ldl55"], r["crp_elevated"]))
    IN  [raised |-> FALSE, df |-> o8]

\* The counts printed in lines 324-364: total, age, fasting subsample, hs-CRP,
\* LDL-C, eligible, statin users among the eligible
EligibilityCounts_bc(df) ==
    LET N(P(_)) == Cardinality({i \in DOMAIN df.rows : P(df.rows[i])})
        Age(r) == eq(r["age_eligible"], 1)
        Fasting(r) == Age(r) /\ eq(r["fasting_eligible"], 1)
        Crp(r) == Fasting(r) /\ eq(r["crp_available"], 1)
        Ldl(r) == Crp(r) /\ eq(r["ldl_available"], 1)
    IN  << len(df), N(Age), N(Fasting), N(Crp), N(Ldl),
           N(LAMBDA r : eq(r["eligible"], 1)),
           N(LAMBDA r : eq(r["statin_eligible"], 1)) >>

export_vars ==
    {"SEQN", "cycle", "is_prepandemic", "mec_weight", "fasting_weight", "psu", "strata",
     "age", "sex", "female", "race_eth", "statin_use", "ldl", "ldl_lt70", "ldl_lt55",
     "hscrp", "crp_elevated", "tchol", "hdl", "trigly", "bmi", "bmi_cat", "obesity",
     "hypertension", "diabetes", "hba1c", "fasting_glucose", "smoking_status",
     "current_smoker", "cvd_history", "eligible", "in_fasting_subsample", "crp_valid",
     "statin_eligible", "primary_cohort", "rir", "rir_crp3", "cohort_ldl55", "rir_ldl55"}


(***************************************************************************)
(* State                                                                   *)
(***************************************************************************)
VARIABLES
    script,     \* which script runs: "process_data" or "build_cohort"
    raw,        \* DATA_RAW: the directory of each cycle, by position in CYCLES
    pc,         \* where main() stands
    cycle_i,    \* the position in CYCLES of the next cycle of main's loop
    all_data,   \* main's list of the non-empty per-cycle tables
    df,         \* main's table: combined, then harmonized, then the cohort
    counts,     \* the counts printed while the cohort is made
    exported,   \* the table written to rir_*.parquet and .csv; <<>> before
    rxq_df,     \* classifier runs: the medication table handed over
    result      \* classifier runs: what identify_statin_users gave back

vars == <<script, raw, pc, cycle_i, all_data, df, counts, exported, rxq_df, result>>

pipeline_vars == <<script, raw, pc, cycle_i, all_data, df, counts, exported>>

Scripts == {"process_data", "build_cohort"}

(***************************************************************************)
(* main()                                                                  *)
(***************************************************************************)
\* Lines 572-575 with every cycle's table labelled as the first cycle
ProcessCycle_one_label ==
    /\ script = "process_data"
    /\ pc = "cycles"
    /\ cycle_i <= NumCycles
    /\ LET cycle_data == process_cycle(CYCLES[1], raw[cycle_i])
       IN  all_data' = IF empty(cycle_data) THEN all_data
                       ELSE Append(all_data, cycle_data)
    /\ cycle_i' = cycle_i + 1
    /\ UNCHANGED <<script, raw, pc, df, counts, exported, rxq_df, result>>

\* 02_process_data.py lines 572-575: one pass of the loop over CYCLES
ProcessCycle ==
    /\ script = "process_data"
    /\ pc = "cycles"
    /\ cycle_i <= NumCycles
    /\ LET cycle_data == process_cycle(CYCLES[cycle_i], raw[cycle_i])
       IN  all_data' = IF empty(cycle_data) THEN all_data
                       ELSE Append(all_data, cycle_data)
    /\ cycle_i' = cycle_i + 1
    /\ UNCHANGED <<script, raw, pc, df, counts, exported, rxq_df, result>>

\* 02_build_cohort.py lines 420-423; an exception of process_cycle ends the run
ProcessCycle_bc ==
    /\ script = "build_cohort"
    /\ pc = "cycles"
    /\ cycle_i <= NumCycles
    /\ LET out == process_cycle_bc(CYCLES[cycle_i], raw[cycle_i])
       IN  /\ all_data' = IF ~out.raised /\ len(out.df) > 0
                          THEN Append(all_data, out.df) ELSE all_data
           /\ pc' = IF out.raised THEN "raised" ELSE pc
    /\ cycle_i' = cycle_i + 1
    /\ UNCHANGED <<script, raw, df, counts, exported, rxq_df, result>>

\* Lines 577-579 (425-427) without the return: the run goes on to the export
NoData_goes_on ==
    /\ pc = "cycles"
    /\ cycle_i > NumCycles
    /\ all_data = <<>>
    /\ pc' = "export"
    /\ UNCHANGED <<script, raw, cycle_i, all_data, df, counts, exported, rxq_df, result>>

\* Lines 577-579 (425-427): no cycle gave data; the message, and return
NoData ==
    /\ pc = "cycles"
    /\ cycle_i > NumCycles
    /\ all_data = <<>>
    /\ pc' = "no_data"
    /\ UNCHANGED <<script, raw, cycle_i, all_data, df, counts, exported, rxq_df, result>>

\* Line 583 (430): pd.concat(all_data, ignore_index=True)
Combine ==
    /\ pc = "cycles"
    /\ cycle_i > NumCycles
    /\ all_data # <<>>
    /\ df' = concat(all_data)
    /\ pc' = IF script = "process_data" THEN "harmonize" ELSE "cohort"
    /\ UNCHANGED <<script, raw, cycle_i, all_data, counts, exported, rxq_df, result>>

\* 02_process_data.py line 587
Harmonize ==
    /\ script = "process_data"
    /\ pc = "harmonize"
    /\ LET out == harmonize_variables(df)
       IN  /\ df' = out.df
           /\ pc' = IF out.raised THEN "raised" ELSE "cohort"
    /\ UNCHANGED <<script, raw, cycle_i, all_data, counts, exported, rxq_df, result>>

\* 02_process_data.py line 590
CreateRirCohort ==
    /\ script = "process_data"
    /\ pc = "cohort"
    /\ LET out == create_rir_cohort(df)
       IN  /\ df' = out.df
           /\ counts' = out.counts
           /\ pc' = IF out.raised THEN "raised" ELSE "export"
    /\ UNCHANGED <<script, raw, cycle_i, all_data, exported, rxq_df, result>>

\* 02_build_cohort.py line 436
BuildAnalyticCohort ==
    /\ script = "build_cohort"
    /\ pc = "cohort"
    /\ LET out == build_analytic_cohort(df)
       IN  /\ df' = out.df
           /\ counts' = IF out.raised THEN <<>> ELSE EligibilityCounts_bc(out.df)
           /\ pc' = IF out.raised THEN "raised" ELSE "export"
    /\ UNCHANGED <<script, raw, cycle_i, all_data, exported, rxq_df, result>>

\* Lines 621-639 (470-481): the analysis columns, written as parquet and CSV
Export ==
    /\ pc = "export"
    /\ exported' = <<Select(df, IF script = "process_data"
                                THEN analysis_vars ELSE export_vars)>>
    /\ pc' = "done"
    /\ UNCHANGED <<script, raw, cycle_i, all_data, df, counts, rxq_df, result>>

Next ==
    \/ ProcessCycle
    \/ ProcessCycle_bc
    \/ NoData
    \/ Combine
    \/ Harmonize
    \/ CreateRirCohort
    \/ BuildAnalyticCohort
    \/ Export

(***************************************************************************)
(* Classifier runs: identify_statin_users applied to one medication table  *)
(***************************************************************************)
Classify ==
    /\ script = "process_data"
    /\ pc = "classify"
    /\ result' = [by |-> "process_data", raised |-> FALSE,
                  out |-> identify_statin_users(rxq_df)]
    /\ pc' = "classified"
    /\ UNCHANGED <<script, raw, cycle_i, all_data, df, counts, exported, rxq_df>>

Classify_bc ==
    /\ script = "build_cohort"
    /\ pc = "classify"
    /\ LET got == identify_statin_users_bc(rxq_df)
       IN  result' = [by |-> "build_cohort", raised |-> got.raised, out |-> got.series]
    /\ pc' = "classified"
    /\ UNCHANGED <<script, raw, cycle_i, all_data, df, counts, exported, rxq_df>>

NextClassifier == Classify \/ Classify_bc


(***************************************************************************)
(* Inputs.  A cycle directory is built from a baseline -- every file the   *)
(* run needs to complete, each participant an adult statin user with       *)
(* LDL-C 60 and hs-CRP 2.5 -- by replacing one file with variants; each    *)
(* family of directories varies what one group of claims is about.         *)
(***************************************************************************)
lisinopril == <<"l", "i", "s", "i", "n", "o", "p", "r", "i", "l">>

ATORVASTATIN_CALCIUM_10MG ==
    <<"A", "T", "O", "R", "V", "A", "S", "T", "A", "T", "I", "N", " ",
      "C", "A", "L", "C", "I", "U", "M", " ", "1", "0", "M", "G">>

BaseNames == <<"DEMO", "TCHOL", "HDL", "TRIGLY", "HSCRP", "DIQ", "BPQ", "SMQ", "RXQ_RX">>

BaseCols(name) ==
    CASE name = "DEMO" -> {"RIDAGEYR", "RIAGENDR", "RIDRETH1", "WTMEC2YR", "SDMVPSU", "SDMVSTRA"}
      [] name = "TCHOL" -> {"LBXTC"}
      [] name = "HDL" -> {"LBDHDD"}
      [] name = "TRIGLY" -> {"LBXTR", "WTSAF2YR"}
      [] name = "HSCRP" -> {"LBXHSCRP"}
      [] name = "DIQ" -> {"DIQ010"}
      [] name = "BPQ" -> {"BPQ040A"}
      [] name = "SMQ" -> {"SMQ020", "SMQ040"}
      [] name = "RXQ_RX" -> {"RXDDRUG"}

BasePerson ==
    [RIDAGEYR |-> Num(45), RIAGENDR |-> Num(1), RIDRETH1 |-> Num(3),
     WTMEC2YR |-> Num(100), SDMVPSU |-> Num(1), SDMVSTRA |-> Num(10),
     LBXTC |-> Num(T(140)), LBDHDD |-> Num(T(50)), LBXTR |-> Num(T(150)),
     WTSAF2YR |-> Num(200), LBXHSCRP |-> Num(25), DIQ010 |-> Num(2),
     BPQ040A |-> Num(2), SMQ020 |-> Num(2), SMQ040 |-> NaN,
     RXDDRUG |-> Num(ATORVASTATIN_CALCIUM_10MG)]

SEQNs == 1..MaxSEQN

\* One row per participant, the cells taken from people[s]
MakeTable(cols, people) ==
    DataFrame({"SEQN"} \cup cols,
        [s \in SEQNs |-> [c \in {"SEQN"} \cup cols |->
                             IF c = "SEQN" THEN Num(s) ELSE people[s][c]]])

BaseFiles(people) ==
    [k \in DOMAIN BaseNames |->
        File(BaseNames[k], ".xpt", TRUE, MakeTable(BaseCols(BaseNames[k]), people))]

\* The listing with the file called name replaced by the files of with
Replace(files, name, with) ==
    Flatten([k \in DOMAIN files |-> IF files[k].name = name THEN with ELSE <<files[k]>>])

Dir(files) == [exists |-> TRUE, files |-> files]

AbsentDir == [exists |-> FALSE, files |-> <<>>]

\* The assignments of cells to the columns cs, each from its domain dom[c]
RECURSIVE RowChoices(_, _)
RowChoices(cs, dom) ==
    IF cs = {} THEN {<<>>}
    ELSE LET c == CHOOSE x \in cs : TRUE
         IN  {(c :> v) @@ f : v \in dom[c], f \in RowChoices(cs \ {c}, dom)}

\* The participants, each the baseline with one of choices laid over it
People(choices) == {[s \in SEQNs |-> v[s] @@ BasePerson] : v \in [SEQNs -> choices]}

\* The directories whose file `slot` holds, besides its other baseline
\* columns, one of the column sets colsets, with cells from dom
ColumnFamily(slot, FileName(_), varied, colsets, dom) ==
    UNION {{Dir(Replace(BaseFiles(people), slot,
                   <<File(FileName(cs), ".xpt", TRUE,
                          MakeTable((BaseCols(slot) \ varied) \cup cs, people))>>))
              : people \in People(RowChoices(cs, dom))}
           : cs \in colsets}

\* The inflammation marker: CRP_x.xpt holds LBXCRP (mg/dL), HSCRP_x.xpt
\* LBXHSCRP (mg/L); 0.3 mg/dL and 2.5 mg/L
CrpDirs ==
    ColumnFamily("HSCRP", LAMBDA cs : IF "LBXHSCRP" \in cs THEN "HSCRP" ELSE "CRP",
        {"LBXCRP", "LBXHSCRP"},
        {{"LBXCRP"}, {"LBXHSCRP"}, {"LBXCRP", "LBXHSCRP"}},
        [LBXCRP |-> {NaN, Num(3)}, LBXHSCRP |-> {NaN, Num(25)}])

\* The interview/exam weight in DEMO, under either name or both
MecWeightDirs ==
    ColumnFamily("DEMO", LAMBDA cs : "DEMO", {"WTMEC2YR", "WTMECPRP"},
        {{"WTMEC2YR"}, {"WTMECPRP"}, {"WTMEC2YR", "WTMECPRP"}},
        [WTMEC2YR |-> {NaN, Num(100)}, WTMECPRP |-> {NaN, Num(300)}])

\* The fasting-subsample weight in TRIGLY, under either name or both
FastingWeightDirs ==
    ColumnFamily("TRIGLY", LAMBDA cs : "TRIGLY", {"WTSAF2YR", "WTSAFPRP"},
        {{"WTSAF2YR"}, {"WTSAFPRP"}, {"WTSAF2YR", "WTSAFPRP"}},
        [WTSAF2YR |-> {NaN, Num(200)}, WTSAFPRP |-> {NaN, Num(400)}])

\* HDL under either column name or both; 50 and 40 mg/dL
HdlDirs ==
    ColumnFamily("HDL", LAMBDA cs : "HDL", {"LBDHDD", "LBXHDD"},
        {{"LBDHDD"}, {"LBXHDD"}, {"LBDHDD", "LBXHDD"}},
        [LBDHDD |-> {NaN, Num(T(50))}, LBXHDD |-> {NaN, Num(T(40))}])

\* Race/ethnicity: RIDRETH1 in every cycle, RIDRETH3 in the later ones
RaceDirs ==
    ColumnFamily("DEMO", LAMBDA cs : "DEMO", {"RIDRETH1", "RIDRETH3"},
        {{"RIDRETH1"}, {"RIDRETH3"}, {"RIDRETH1", "RIDRETH3"}},
        [RIDRETH1 |-> {NaN, Num(5)}, RIDRETH3 |-> {NaN, Num(6)}])

\* The lipid panel (total cholesterol, HDL, triglycerides), whole mg/dL
LipidPanels ==
    {[LBXTC |-> Num(T(200)), LBDHDD |-> Num(T(50)), LBXTR |-> Num(T(150))],
     [LBXTC |-> Num(T(140)), LBDHDD |-> Num(T(50)), LBXTR |-> Num(T(150))],
     [LBXTC |-> Num(T(100)), LBDHDD |-> Num(T(90)), LBXTR |-> Num(T(150))],
     [LBXTC |-> Num(T(200)), LBDHDD |-> Num(T(50)), LBXTR |-> Num(T(400))]}

LipidDirs == {Dir(BaseFiles(people)) : people \in People(LipidPanels)}

\* The glycemic signals of one participant: HbA1c (tenths of a percent) in
\* GHB, fasting glucose in GLU, and the three answers of DIQ (1 yes, 2 no):
\* insulin alone; HbA1c 6.0; HbA1c 7.0 with glucose 110; all normal
GlycemicProfiles ==
    {[LBXGH |-> NaN, LBXGLU |-> NaN, DIQ010 |-> NaN, DIQ050 |-> Num(1), DIQ070 |-> NaN],
     [LBXGH |-> Num(60), LBXGLU |-> NaN, DIQ010 |-> Num(2), DIQ050 |-> Num(2), DIQ070 |-> Num(2)],
     [LBXGH |-> Num(70), LBXGLU |-> Num(T(110)), DIQ010 |-> Num(2), DIQ050 |-> NaN, DIQ070 |-> NaN],
     [LBXGH |-> Num(50), LBXGLU |-> Num(T(90)), DIQ010 |-> Num(2), DIQ050 |-> Num(2), DIQ070 |-> Num(2)]}

GlycemicDirs ==
    {Dir(Replace(BaseFiles(people), "DIQ",
            <<File("DIQ", ".xpt", TRUE, MakeTable({"DIQ010", "DIQ050", "DIQ070"}, people)),
              File("GHB", ".xpt", TRUE, MakeTable({"LBXGH"}, people)),
              File("GLU", ".xpt", TRUE, MakeTable({"LBXGLU"}, people))>>))
       : people \in People(GlycemicProfiles)}

\* Participants for the cohort filter and the outcome flags, each the
\* baseline (age 45, LDL-C 60, hs-CRP 2.5, statin) but for the fields named.
\* Total cholesterol 130..230 with HDL 50 and triglycerides 150 gives LDL-C
\* 50..150.
CohortProfiles ==
    << [LBXTC |-> Num(T(140))],
       [LBXTC |-> Num(T(130)), LBXHSCRP |-> Num(35)],
       [LBXTC |-> Num(T(150)), LBXHSCRP |-> Num(T(2))],
       [LBXTC |-> Num(T(180)), LBXHSCRP |-> Num(T(3)), RXDDRUG |-> Num(lisinopril)],
       [LBXTC |-> Num(T(210)), LBXHSCRP |-> Num(15)],
       [LBXTC |-> Num(T(230)), RXDDRUG |-> Num(lisinopril)],
       [LBXTC |-> Num(T(230))],
       [RXDDRUG |-> Num(lisinopril)],
       [RIDAGEYR |-> Num(15)],
       [LBXHSCRP |-> Num(T(12))],
       [LBXHSCRP |-> NaN],
       [LBXTR |-> Num(T(400))],
       [WTSAF2YR |-> NaN],
       [SDMVPSU |-> NaN] >>

\* The participants of one directory take consecutive profiles, from the k-th
ConsecutivePeople(profiles, k) ==
    [s \in SEQNs |-> profiles[((k + s - 2) % Len(profiles)) + 1] @@ BasePerson]

\* One directory for each profile to start from, and the baseline with a
\* prescription file that cannot be read
CohortDirs ==
    {Dir(BaseFiles(ConsecutivePeople(CohortProfiles, k))) : k \in DOMAIN CohortProfiles}
    \cup {Dir(Replace(BaseFiles([s \in SEQNs |-> BasePerson]), "RXQ_RX",
                  <<File("RXQ_RX", ".xpt", FALSE, EmptyDataFrame)>>))}

\* The component files by kind, and the number of rows each kind's files hold
\* for a participant: 0 is a participant the component does not contain
ComponentNames == <<"TCHOL", "HDL", "TRIGLY", "HSCRP", "BMX", "DIQ", "BPQ", "SMQ", "RXQ_RX">>

KindOf(name) ==
    CASE name \in {"TCHOL", "HDL", "TRIGLY", "HSCRP"} -> "labs"
      [] name = "BMX" -> "exam"
      [] name \in {"DIQ", "BPQ", "SMQ"} -> "questionnaires"
      [] name = "RXQ_RX" -> "medications"

ComponentCols(name) == IF name = "BMX" THEN {"BMXBMI"} ELSE BaseCols(name)

Coverage ==
    << [labs |-> 1, exam |-> 1, questionnaires |-> 1, medications |-> 1],
       [labs |-> 0, exam |-> 1, questionnaires |-> 1, medications |-> 2],
       [labs |-> 1, exam |-> 0, questionnaires |-> 1, medications |-> 1],
       [labs |-> 1, exam |-> 2, questionnaires |-> 0, medications |-> 1],
       [labs |-> 1, exam |-> 1, questionnaires |-> 1, medications |-> 0],
       [labs |-> 0, exam |-> 0, questionnaires |-> 0, medications |-> 0] >>

\* A participant of the component files who is not in DEMO
Outsider == MaxSEQN + 1

\* The component file name: cover[s][kind] rows for participant s, and a row
\* for the outsider when outsider is TRUE
ComponentFile(name, cover, outsider) ==
    LET person == [BMXBMI |-> Num(T(27))] @@ BasePerson
        cols == {"SEQN"} \cup ComponentCols(name)
        Row(s) == [c \in cols |-> IF c = "SEQN" THEN Num(s) ELSE person[c]]
        rows == Flatten([s \in SEQNs |-> [j \in 1..cover[s][KindOf(name)] |-> Row(s)]])
    IN  File(name, ".xpt", TRUE,
             DataFrame(cols, rows \o (IF outsider THEN <<Row(Outsider)>> ELSE <<>>)))

\* A DEMO file of all participants and component files covering them by
\* consecutive entries of Coverage
MembershipDirs ==
    {Dir(<<File("DEMO", ".xpt", TRUE, MakeTable(BaseCols("DEMO"), [s \in SEQNs |-> BasePerson]))>>
         \o [n \in DOMAIN ComponentNames |->
                ComponentFile(ComponentNames[n],
                              [s \in SEQNs |-> Coverage[((k + s - 2) % Len(Coverage)) + 1]],
                              outsider)])
        : k \in DOMAIN Coverage, outsider \in BOOLEAN}

\* What a cycle directory holds of a file: the file, a file pd.read_sas fails
\* on, no file, or (for DEMO) a file of no rows
FileStates == {"readable", "unreadable", "absent"}

DemoStates == FileStates \cup {"no_rows"}

Kinds == {"labs", "exam", "questionnaires", "medications"}

\* The listing entries of the file in the given state
StateFile(name, state, table) ==
    CASE state = "readable" -> <<File(name, ".xpt", TRUE, table)>>
      [] state = "unreadable" -> <<File(name, ".xpt", FALSE, EmptyDataFrame)>>
      [] state = "no_rows" -> <<File(name, ".xpt", TRUE, DataFrame(table.cols, <<>>))>>
      [] state = "absent" -> <<>>

\* Every state of DEMO with every combination of states of the component kinds
FileStateDirs ==
    LET everybody == [s \in SEQNs |-> [labs |-> 1, exam |-> 1, questionnaires |-> 1,
                                       medications |-> 1]]
    IN  {Dir(StateFile("DEMO", demo, MakeTable(BaseCols("DEMO"), [s \in SEQNs |-> BasePerson]))
             \o Flatten([n \in DOMAIN ComponentNames |->
                    StateFile(ComponentNames[n], st[KindOf(ComponentNames[n])],
                              ComponentFile(ComponentNames[n], everybody, FALSE).table)]))
            : demo \in DemoStates, st \in [Kinds -> FileStates]}

BaselineDir == Dir(BaseFiles([s \in SEQNs |-> BasePerson]))

\* The medication rows of one participant
RxPatterns == {<<>>, <<lisinopril>>, <<lisinopril, ATORVASTATIN_CALCIUM_10MG>>}

RxRows(s, drugs) == [k \in DOMAIN drugs |-> [SEQN |-> Num(s), RXDDRUG |-> Num(drugs[k])]]

\* The prescription file: a choice of rows for each participant of DEMO, with
\* or without a row of somebody the demographics file does not list; or no
\* such file; or one that cannot be read
RxFiles ==
    {<<>>, <<File("RXQ_RX", ".xpt", FALSE, EmptyDataFrame)>>}
    \cup {<<File("RXQ_RX", ".xpt", TRUE,
                DataFrame({"SEQN", "RXDDRUG"},
                    Flatten([s \in SEQNs |-> RxRows(s, rx[s])])
                    \o (IF other THEN RxRows(MaxSEQN + 1, <<lisinopril>>) ELSE <<>>)))>>
            : rx \in [SEQNs -> RxPatterns], other \in BOOLEAN}

\* The medication tables handed to identify_statin_users alone: up to
\* max_rows rows over each choice of columns
RxColumnSets ==
    {{"SEQN", "RXDDRUG", "RXDDCI1A"}, {"SEQN", "RXDDRUG"},
     {"SEQN", "RXDDCI1A"}, {"RXDDRUG", "RXDDCI1A"}}

RxDomains ==
    [SEQN |-> {Num(s) : s \in 1..(MaxSEQN + 1)},
     RXDDRUG |-> {NaN, Num(lisinopril), Num(ATORVASTATIN_CALCIUM_10MG)},
     RXDDCI1A |-> {NaN, Num("358"), Num("CV350")}]

RxTables(max_rows) ==
    UNION {UNION {{DataFrame(cs, rows) : rows \in [1..n -> RowChoices(cs, RxDomains)]}
                  : n \in 0..max_rows}
           : cs \in RxColumnSets}

StatinDirs ==
    {Dir(Replace(BaseFiles([s \in SEQNs |-> BasePerson]), "RXQ_RX", f)) : f \in RxFiles}

(***************************************************************************)
(* Specifications                                                          *)
(***************************************************************************)
\* A run of either script over NumCycles cycle directories, each absent or
\* one of dirs
InitWith(dirs) ==
    /\ script \in Scripts
    /\ raw \in [1..NumCycles -> dirs \cup {AbsentDir}]
    /\ pc = "cycles"
    /\ cycle_i = 1
    /\ all_data = <<>>
    /\ df = EmptyDataFrame
    /\ counts = <<>>
    /\ exported = <<>>
    /\ rxq_df = EmptyDataFrame
    /\ result = [by |-> "nobody", raised |-> FALSE, out |-> EmptyDataFrame]

InitCrp == InitWith(CrpDirs)

SpecCrp == InitCrp /\ [][Next]_vars

InitWeights == InitWith(MecWeightDirs \cup FastingWeightDirs)

SpecWeights == InitWeights /\ [][Next]_vars

InitHdl == InitWith(HdlDirs)

SpecHdl == InitHdl /\ [][Next]_vars

InitRace == InitWith(RaceDirs)

SpecRace == InitRace /\ [][Next]_vars

InitLipid == InitWith(LipidDirs)

SpecLipid == InitLipid /\ [][Next]_vars

InitStatin == InitWith(StatinDirs)

SpecStatin == InitStatin /\ [][Next]_vars

InitGlycemic == InitWith(GlycemicDirs)

SpecGlycemic == InitGlycemic /\ [][Next]_vars

InitCohort == InitWith(CohortDirs)

SpecCohort == InitCohort /\ [][Next]_vars

InitMembership == InitWith(MembershipDirs)

SpecMembership == InitMembership /\ [][Next]_vars

\* A run of either script in which the first cycle directory is absent or one
\* of FileStateDirs, and each later one absent or the baseline directory
InitFileStates ==
    /\ script \in Scripts
    /\ raw \in {[i \in 1..NumCycles |-> IF i = 1 THEN first ELSE later[i]] :
                   first \in FileStateDirs \cup {AbsentDir},
                   later \in [1..NumCycles -> {AbsentDir, BaselineDir}]}
    /\ pc = "cycles"
    /\ cycle_i = 1
    /\ all_data = <<>>
    /\ df = EmptyDataFrame
    /\ counts = <<>>
    /\ exported = <<>>
    /\ rxq_df = EmptyDataFrame
    /\ result = [by |-> "nobody", raised |-> FALSE, out |-> EmptyDataFrame]

SpecFileStates == InitFileStates /\ [][Next]_vars

InitClassifier ==
    /\ script \in Scripts
    /\ rxq_df \in RxTables(MaxRxRows)
    /\ pc = "classify"
    /\ raw = <<>>
    /\ cycle_i = 1
    /\ all_data = <<>>
    /\ df = EmptyDataFrame
    /\ counts = <<>>
    /\ exported = <<>>
    /\ result = [by |-> "nobody", raised |-> FALSE, out |-> EmptyDataFrame]

SpecClassifier == InitClassifier /\ [][NextClassifier]_vars

Init == InitWith(CrpDirs \cup HdlDirs \cup RaceDirs \cup LipidDirs \cup StatinDirs)

Spec == Init /\ [][Next]_vars

(***************************************************************************)
(* Properties.  A record of a table is set against what the raw files of   *)
(* its own cycle say about its participant.                                *)
(***************************************************************************)
\* The position in CYCLES of the cycle a record came from
CycleOf(r) == CHOOSE i \in DOMAIN CYCLES : CYCLES[i] = r["cycle"][1]

\* What the readable files of cycle i say in column col about the participant:
\* NaN when no file holds the column, or none lists the participant
RawCell(i, col, seqn) ==
    LET holding == {f \in {raw[i].files[k] : k \in DOMAIN raw[i].files} :
                       f.readable /\ {"SEQN", col} \subseteq f.table.cols}
        said == UNION {{t.rows[n][col] :
                           n \in {m \in DOMAIN t.rows : t.rows[m]["SEQN"] = seqn}}
                       : t \in {f.table : f \in holding}}
    IN  IF said = {} THEN NaN ELSE CHOOSE c \in said : TRUE

Raw(r, col) == RawCell(CycleOf(r), col, r["SEQN"])

\* The participant has a row in the cycle's prescription file
HasRxRecord(i, seqn) ==
    \E k \in DOMAIN raw[i].files :
        LET f == raw[i].files[k]
        IN  /\ f.name = "RXQ_RX"
            /\ f.readable
            /\ "SEQN" \in f.table.cols
            /\ \E j \in DOMAIN f.table.rows : f.table.rows[j]["SEQN"] = seqn

Rows(t) == {t.rows[j] : j \in DOMAIN t.rows}

\* df holds the canonical columns: after harmonize_variables in one script,
\* after build_analytic_cohort in the other
Harmonized ==
    \/ script = "process_data" /\ pc \in {"cohort", "export", "done"}
    \/ script = "build_cohort" /\ pc \in {"export", "done"}

StatinCol == IF script = "process_data" THEN "statin_user" ELSE "statin_use"

LdlCol == IF script = "process_data" THEN "ldl_calc" ELSE "ldl"

\* C1: a participant with no medication record is not given statin use 0 by
\* the per-cycle merge (the status stays missing), and is in no final cohort.
NoRecordStaysUnknown ==
    /\ \A k \in DOMAIN all_data : \A r \in Rows(all_data[k]) :
          ~HasRxRecord(CycleOf(r), r["SEQN"]) => isna(get(all_data[k], r, StatinCol))
    /\ script = "process_data" /\ pc \in {"export", "done"}
          => \A r \in Rows(df) : HasRxRecord(CycleOf(r), r["SEQN"])

\* C2: a record with LBXCRP and no LBXHSCRP has hscrp = 10 x LBXCRP; a record
\* with LBXHSCRP keeps that value unscaled.
OldCrpScaledByTen ==
    Harmonized =>
        \A r \in Rows(df) :
            LET old == Raw(r, "LBXCRP")
                new == Raw(r, "LBXHSCRP")
            IN  /\ notna(old) /\ isna(new) => r["hscrp"] = Num(10 * Val(old))
                /\ notna(new) => r["hscrp"] = new

\* C3: each canonical survey weight is the standard-name value (WTMEC2YR,
\* WTSAF2YR) when that is present, and the combined-cycle value (WTMECPRP,
\* WTSAFPRP) only when the standard one is missing.
WeightsCoalesce ==
    Harmonized =>
        \A r \in Rows(df) :
            /\ r["mec_weight"] = fillna(Raw(r, "WTMEC2YR"), Raw(r, "WTMECPRP"))
            /\ r["fasting_weight"] = fillna(Raw(r, "WTSAF2YR"), Raw(r, "WTSAFPRP"))

\* C4: canonical HDL of every record of the combined table is its LBDHDD if
\* present, else its LBXHDD, whichever column names the other cycles use.
HdlCoalesce ==
    Harmonized =>
        \A r \in Rows(df) : r["hdl"] = fillna(Raw(r, "LBDHDD"), Raw(r, "LBXHDD"))

\* C5: a record with both RIDRETH3 and RIDRETH1 has race_eth = RIDRETH3.
NewerRaceCodingWins ==
    Harmonized =>
        \A r \in Rows(df) :
            notna(Raw(r, "RIDRETH3")) /\ notna(Raw(r, "RIDRETH1"))
                => r["race_eth"] = Raw(r, "RIDRETH3")

\* C6: a record without RIDRETH3 but with RIDRETH1 has race_eth = RIDRETH1,
\* also when other cycles of the combined table carry RIDRETH3.
OlderRaceCodingFallback ==
    Harmonized =>
        \A r \in Rows(df) :
            isna(Raw(r, "RIDRETH3")) /\ notna(Raw(r, "RIDRETH1"))
                => r["race_eth"] = Raw(r, "RIDRETH1")

\* The classifier has run on rxq_df
Classified == pc = "classified"

\* The flag the classifier gave the participant: <<>> when it gave none
FlagOf(seqn) ==
    LET col == IF script = "process_data" THEN "statin_user" ELSE "is_statin"
    IN  IF result.raised THEN <<>>
        ELSE [k \in DOMAIN SelectSeq(result.out.rows, LAMBDA u : u["SEQN"] = seqn) |->
                 SelectSeq(result.out.rows, LAMBDA u : u["SEQN"] = seqn)[k][col]]

\* A medication row names a statin (case-insensitively, anywhere in the drug
\* name) or carries a statin class code, by the lists of the running script
RowIsStatin(t, r) ==
    LET names == IF script = "process_data" THEN STATIN_NAMES ELSE STATIN_PATTERNS
        codes == IF script = "process_data" THEN STATIN_THERAPEUTIC_CLASSES
                 ELSE STATIN_CLASS_CODES
    IN  \/ /\ "RXDDRUG" \in t.cols
           /\ notna(r["RXDDRUG"])
           /\ \E k \in DOMAIN names : contains(lower(Val(r["RXDDRUG"])), names[k])
        \/ /\ "RXDDCI1A" \in t.cols
           /\ notna(r["RXDDCI1A"])
           /\ Val(r["RXDDCI1A"]) \in codes

\* C7: a participant of the medication table is flagged 1 iff one of their
\* rows matches a statin by drug name or by therapeutic-class code.
FlagIffSomeRowMatches ==
    Classified /\ "SEQN" \in rxq_df.cols =>
        \A r \in Rows(rxq_df) :
            FlagOf(r["SEQN"]) = <<Num(1)>>
                <=> \E q \in Rows(rxq_df) : q["SEQN"] = r["SEQN"] /\ RowIsStatin(rxq_df, q)

\* C8: the classifier's output has exactly one row for each participant ID
\* of the medication table and no other row; an empty table, or one without
\* the participant-ID column, gives an empty output.
OneRowPerParticipant ==
    Classified =>
        /\ ~result.raised
        /\ IF empty(rxq_df) \/ "SEQN" \notin rxq_df.cols
           THEN result.out.rows = <<>>
           ELSE /\ \A r \in Rows(rxq_df) : Len(FlagOf(r["SEQN"])) = 1
                /\ \A u \in Rows(result.out) : \E r \in Rows(rxq_df) : r["SEQN"] = u["SEQN"]

\* The Friedewald value of a record's raw lipid panel, in tenths of mg/dL
Friedewald(r) == Val(Raw(r, "LBXTC")) - Val(Raw(r, "LBDHDD")) - (Val(Raw(r, "LBXTR")) \div 5)

PanelPresent(r) == notna(Raw(r, "LBXTC")) /\ notna(Raw(r, "LBDHDD")) /\ notna(Raw(r, "LBXTR"))

\* C9 as stated: with the three lipids present, triglycerides < 400 give
\* LDL-C = TC - HDL - TG/5, and triglycerides >= 400 give a missing LDL-C.
LdlIsFriedewald ==
    Harmonized =>
        \A r \in Rows(df) :
            PanelPresent(r) =>
                IF Val(Raw(r, "LBXTR")) < T(400)
                THEN r[LdlCol] = Num(Friedewald(r))
                ELSE isna(r[LdlCol])

\* C9, amended: with the three lipids present, triglycerides < 400 and a
\* Friedewald value that is not negative give LDL-C = TC - HDL - TG/5;
\* triglycerides >= 400 give a missing LDL-C.
LdlIsFriedewaldUnlessNegative ==
    Harmonized =>
        \A r \in Rows(df) :
            PanelPresent(r) =>
                /\ Val(Raw(r, "LBXTR")) < T(400) /\ Friedewald(r) >= 0
                      => r[LdlCol] = Num(Friedewald(r))
                /\ Val(Raw(r, "LBXTR")) >= T(400) => isna(r[LdlCol])

\* Both cases of C9 in one combined table: TC 200, HDL 50, TG 150 with LDL-C
\* 120, and a record with triglycerides of 400 and no LDL-C
LdlBothCasesSeen ==
    /\ Harmonized
    /\ \E r \in Rows(df) :
          /\ Raw(r, "LBXTC") = Num(T(200)) /\ Raw(r, "LBDHDD") = Num(T(50))
          /\ Raw(r, "LBXTR") = Num(T(150))
          /\ r[LdlCol] = Num(T(120))
    /\ \E r \in Rows(df) : Raw(r, "LBXTR") = Num(T(400)) /\ isna(r[LdlCol])

\* C10: the derived LDL-C is never negative; a record whose Friedewald value
\* is negative has a missing LDL-C, is in no cohort and carries no LDL<70 or
\* LDL<55 flag.
LdlNeverNegative ==
    /\ Harmonized => \A r \in Rows(df) : notna(r[LdlCol]) => Val(r[LdlCol]) >= 0
    /\ pc \in {"export", "done"} =>
          \A r \in Rows(df) :
              PanelPresent(r) /\ Friedewald(r) < 0 =>
                  IF script = "process_data" THEN FALSE
                  ELSE r["ldl_lt70"] # Num(1) /\ r["ldl_lt55"] # Num(1)

\* C11: the diabetes flag is missing only when HbA1c, fasting glucose and the
\* three self-reports (doctor told, insulin, oral medication) are all
\* missing; otherwise it is 0 or 1, and 1 whenever one signal is affirmative.
DiabetesFromAnySignal ==
    Harmonized =>
        \A r \in Rows(df) :
            LET a1c == Raw(r, "LBXGH")
                glu == Raw(r, "LBXGLU")
                told == Raw(r, "DIQ010")
                insulin == Raw(r, "DIQ050")
                pills == Raw(r, "DIQ070")
                all_missing == /\ isna(a1c) /\ isna(glu)
                               /\ isna(told) /\ isna(insulin) /\ isna(pills)
                affirmative == \/ ge(a1c, 65) \/ ge(glu, T(126))
                               \/ eq(told, 1) \/ eq(insulin, 1) \/ eq(pills, 1)
            IN  /\ isna(r["diabetes"]) => all_missing
                /\ ~all_missing => r["diabetes"] \in {Num(0), Num(1)}
                /\ affirmative => r["diabetes"] = Num(1)

\* df of 02_process_data.py holds diabetes, prediabetes and glycemic_status
GlycemicDerived == script = "process_data" /\ pc \in {"cohort", "export", "done"}

\* C12: no record has prediabetes = 1 with diabetes = 1; glycemic_status is 2
\* whenever diabetes = 1, and 1 only when prediabetes = 1 and diabetes is not 1.
DiabetesExcludesPrediabetes ==
    GlycemicDerived =>
        \A r \in Rows(df) :
            /\ ~(r["prediabetes"] = Num(1) /\ r["diabetes"] = Num(1))
            /\ r["diabetes"] = Num(1) => r["glycemic_status"] = Num(2)
            /\ r["glycemic_status"] = Num(1)
                  => r["prediabetes"] = Num(1) /\ r["diabetes"] # Num(1)

\* A combined table with a diabetic record whose glucose is in the
\* prediabetes range (HbA1c 7.0, glucose 110: prediabetes 0, status 2) and a
\* prediabetic record (HbA1c 6.0: status 1)
BothGlycemicCasesSeen ==
    /\ GlycemicDerived
    /\ \E r \in Rows(df) :
          /\ Raw(r, "LBXGH") = Num(70) /\ Raw(r, "LBXGLU") = Num(T(110))
          /\ r["diabetes"] = Num(1) /\ r["prediabetes"] = Num(0)
          /\ r["glycemic_status"] = Num(2)
    /\ \E r \in Rows(df) :
          /\ Raw(r, "LBXGH") = Num(60)
          /\ r["diabetes"] = Num(0) /\ r["prediabetes"] = Num(1)
          /\ r["glycemic_status"] = Num(1)

\* df of 02_process_data.py is the cohort create_rir_cohort returned
CohortMade == script = "process_data" /\ pc \in {"export", "done"}

\* The LDL-C band of a value in tenths of mg/dL: 1 up to 70, 2 up to 130, 3 above
LdlBand(v) == IF v <= T(70) THEN 1 ELSE IF v <= T(130) THEN 2 ELSE 3

\* C13: for every record of the cohort, ldl_statin_group is 1..6 by LDL-C
\* band (<= 70, 70-130, > 130) crossed with statin use (user first), and
\* missing if LDL-C or the statin status is missing.
SixGroupsByLdlAndStatin ==
    CohortMade =>
        \A r \in Rows(df) :
            r["ldl_statin_group"] =
                IF isna(r["ldl_calc"]) \/ isna(r["statin_user"]) THEN NaN
                ELSE Num(2 * LdlBand(Val(r["ldl_calc"]))
                         - (IF r["statin_user"] = Num(1) THEN 1 ELSE 0))

\* A cohort with a statin user at LDL-C exactly 70 in group 1 and a
\* non-user at LDL-C 150 in group 6
GroupsAtBoundarySeen ==
    /\ CohortMade
    /\ \E r \in Rows(df) :
          /\ r["ldl_calc"] = Num(T(70)) /\ r["statin_user"] = Num(1)
          /\ r["ldl_statin_group"] = Num(1)
    /\ \E r \in Rows(df) :
          /\ r["ldl_calc"] = Num(T(150)) /\ r["statin_user"] = Num(0)
          /\ r["ldl_statin_group"] = Num(6)

\* The records of the final cohort: the rows create_rir_cohort kept, or the
\* rows build_analytic_cohort marked eligible
FinalCohort ==
    IF script = "process_data"
    THEN (IF pc \in {"export", "done"} THEN Rows(df) ELSE {})
    ELSE (IF pc \in {"export", "done"} THEN {r \in Rows(df) : r["eligible"] = Num(1)} ELSE {})

HscrpCol == "hscrp"

StrictCol == IF script = "process_data" THEN "rir_strict" ELSE "rir_crp3"

\* Statin user with LDL-C below ldl_below (mg/dL) and hs-CRP at least
\* crp_from (mg/L), as a flag that is 0 when a value is missing
Outcome(r, ldl_below, crp_from) ==
    IF /\ r[StatinCol] = Num(1)
       /\ notna(r[LdlCol]) /\ Val(r[LdlCol]) < T(ldl_below)
       /\ notna(r[HscrpCol]) /\ Val(r[HscrpCol]) >= T(crp_from)
    THEN Num(1) ELSE Num(0)

\* C14: in the final cohort rir = 1 iff statin user, LDL-C < 70 and hs-CRP >= 2;
\* rir_strict / rir_crp3 the same with hs-CRP >= 3; rir_ldl55 the same with
\* LDL-C < 55; each flag is otherwise 0, never missing.
OutcomeFlagsByDefinition ==
    \A r \in FinalCohort :
        /\ r["rir"] = Outcome(r, 70, 2)
        /\ r[StrictCol] = Outcome(r, 70, 3)
        /\ r["rir_ldl55"] = Outcome(r, 55, 2)

\* A final cohort of 02_build_cohort.py with a statin user at LDL-C 60 and
\* hs-CRP 2.5 (rir only) and one at LDL-C 50 and hs-CRP 3.5 (all three flags)
OutcomeFlagsSeen ==
    /\ script = "build_cohort"
    /\ \E r \in FinalCohort :
          /\ r["ldl"] = Num(T(60)) /\ r["hscrp"] = Num(25)
          /\ r["rir"] = Num(1) /\ r["rir_crp3"] = Num(0) /\ r["rir_ldl55"] = Num(0)
    /\ \E r \in FinalCohort :
          /\ r["ldl"] = Num(T(50)) /\ r["hscrp"] = Num(35)
          /\ r["rir"] = Num(1) /\ r["rir_crp3"] = Num(1) /\ r["rir_ldl55"] = Num(1)

\* The seven inclusion conditions, read from a record of the cohort table
MeetsAllSeven(r) ==
    /\ notna(r["age"]) /\ Val(r["age"]) >= 20
    /\ notna(r[HscrpCol])
    /\ Val(r[HscrpCol]) <= T(10)
    /\ notna(r[StatinCol])
    /\ notna(r[LdlCol])
    /\ notna(r["fasting_weight"])
    /\ notna(r["psu"]) /\ notna(r["strata"])

\* The records of the cohort table carrying an outcome flag of 1
Flagged ==
    IF pc \in {"export", "done"}
    THEN {r \in Rows(df) : \E f \in {"rir", StrictCol, "rir_ldl55"} :
                               f \in DOMAIN r /\ r[f] = Num(1)}
    ELSE {}

\* C15: every record that survives the cohort filter, and every record with an
\* outcome flag of 1, has age >= 20, hs-CRP present and <= 10, statin status
\* present, LDL-C present, fasting weight present, and PSU and stratum present.
SurvivorsMeetAllSeven ==
    \A r \in FinalCohort \cup Flagged : MeetsAllSeven(r)

\* C16: applying the seven filter steps of create_rir_cohort to the table it
\* returned removes no row at any step and yields the same records.
FilterIdempotent ==
    CohortMade =>
        \A n \in 0..NumFilterSteps :
            /\ len(AfterStep(df, n)) = len(df)
            /\ AfterStep(df, n).rows = df.rows

\* A cohort of 02_process_data.py that kept a record and removed another
FilteredCohortSeen ==
    /\ CohortMade
    /\ len(df) > 0
    /\ counts[1] > len(df)
    /\ len(AfterStep(df, NumFilterSteps)) = len(df)

\* The flags build_analytic_cohort counts, in the order of lines 327-364
EligibilityFlags_bc ==
    <<"age_eligible", "fasting_eligible", "crp_available", "ldl_available",
      "eligible", "statin_eligible">>

\* The records of 02_build_cohort.py counted after its n-th eligibility step
Survivors_bc(n) ==
    {r \in Rows(df) : \A k \in 1..n : r[EligibilityFlags_bc[k]] = Num(1)}

\* The steps create_rir_cohort gets through on df: df['statin_user'] of step 4
\* raises KeyError on a table without the column
StepsReached == IF "statin_user" \in df.cols THEN NumFilterSteps ELSE 3

\* C17: the count reported after each filter step is at most the count after
\* the step before, and the survivors of a step are among the survivors of the
\* step before.
FilterMonotone ==
    /\ (script = "process_data" /\ pc = "cohort") =>
           \A n \in 1..StepsReached :
               /\ Rows(AfterStep(df, n)) \subseteq Rows(AfterStep(df, n - 1))
               /\ len(AfterStep(df, n)) <= len(AfterStep(df, n - 1))
    /\ (pc \in {"export", "done"}) =>
           \A n \in 1..(Len(counts) - 1) : counts[n + 1] <= counts[n]
    /\ (script = "build_cohort" /\ pc \in {"export", "done"}) =>
           \A n \in 1..Len(EligibilityFlags_bc) :
               /\ Survivors_bc(n) \subseteq Survivors_bc(n - 1)
               /\ counts[n + 1] = Cardinality(Survivors_bc(n))

\* Reported counts that fall at a step after the first and end above zero
CountsFallSeen ==
    /\ pc \in {"export", "done"}
    /\ counts # <<>>
    /\ \E n \in 2..(Len(counts) - 1) : counts[n + 1] < counts[n]
    /\ counts[Len(counts)] > 0

\* The orders in which the steps of a set can be applied
RECURSIVE Orders(_)
Orders(steps) ==
    IF steps = {} THEN {<<>>}
    ELSE UNION {{<<n>> \o order : order \in Orders(steps \ {n})} : n \in steps}

StepOrders == Orders(1..NumFilterSteps)

\* The filter steps of create_rir_cohort applied in the given order
RECURSIVE InOrder(_, _)
InOrder(t, order) ==
    IF order = <<>> THEN t
    ELSE InOrder(Filter(t, LAMBDA r : FilterStep(Head(order), r)), Tail(order))

\* C18: the final surviving set is the same for every order of the seven filter
\* steps: it is the set of input records meeting all seven conditions.
FilterOrderIndependent ==
    /\ (script = "process_data" /\ pc = "cohort" /\ "statin_user" \in df.cols) =>
           \A order \in StepOrders :
               Rows(InOrder(df, order)) = {r \in Rows(df) : MeetsAllSeven(r)}
    /\ (script = "build_cohort" /\ pc \in {"export", "done"}) =>
           FinalCohort = {r \in Rows(df) : MeetsAllSeven(r)}

\* The readable file called name of cycle i lists the participant
InFile(i, name, seqn) ==
    \E k \in DOMAIN raw[i].files :
        LET f == raw[i].files[k]
        IN  /\ f.name = name
            /\ f.readable
            /\ "SEQN" \in f.table.cols
            /\ \E j \in DOMAIN f.table.rows : f.table.rows[j]["SEQN"] = seqn

\* The participants of the demographics table of cycle i
DemoParticipants(i) ==
    UNION {{f.table.rows[j]["SEQN"] : j \in DOMAIN f.table.rows} :
           f \in {g \in {raw[i].files[k] : k \in DOMAIN raw[i].files} :
                     g.name = "DEMO" /\ g.readable /\ "SEQN" \in g.table.cols}}

\* The rows of the per-cycle table process_cycle returned for cycle i
CycleRows(i) ==
    UNION {{r \in Rows(all_data[k]) : r["cycle"] = <<CYCLES[i]>>} : k \in DOMAIN all_data}

\* The component files whose variables are merged into the per-cycle table
MergedComponents == {"TCHOL", "HDL", "TRIGLY", "HSCRP", "BMX", "DIQ", "BPQ", "SMQ"}

DemoUnavailable(i) ==
    LET demo == SelectSeq(raw[i].files, LAMBDA f : f.name = "DEMO")
    IN  \/ ~raw[i].exists
        \/ demo = <<>>
        \/ ~demo[1].readable
        \/ demo[1].table.rows = <<>>

\* An exception left process_cycle: the run ended before the cycles were combined
ProcessCycleRaised == pc = "raised" /\ df = EmptyDataFrame

\* C20: process_cycle contributes no row when the cycle directory or the DEMO
\* file is absent or DEMO loads as empty; otherwise, whatever component files
\* are absent or unreadable, it returns the table of the DEMO participants;
\* it never raises.
ProcessCycleNeverRaises ==
    /\ ~ProcessCycleRaised
    /\ \A i \in 1..(cycle_i - 1) :
           IF DemoUnavailable(i) THEN CycleRows(i) = {}
           ELSE {r["SEQN"] : r \in CycleRows(i)} = DemoParticipants(i)

\* The files of the directory of cycle i that pd.read_sas fails on
Unreadable(i) == {f \in {raw[i].files[k] : k \in DOMAIN raw[i].files} : ~f.readable}

\* C21: for a file that cannot be read load_xpt returns an empty table and
\* prints a warning naming the file, and no exception reaches the run: the
\* caller goes on with the dataset unavailable for the cycle.
LoaderFailureIsAbsorbed ==
    \A i \in 1..(cycle_i - 1) : \A f \in Unreadable(i) :
        /\ load_xpt(f) = EmptyDataFrame
        /\ load_xpt_warning(f) = <<f.name \o f.ext>>
        /\ ~(ProcessCycleRaised /\ i = cycle_i - 1)
        /\ \A r \in CycleRows(i) : \A c \in ComponentCols(f.name) : c \in DOMAIN r => isna(r[c])

\* Every call of process_cycle of the run returns an empty table: no cycle has
\* a demographics table with rows, and no call raised
NoCycleHasData ==
    /\ \A i \in 1..NumCycles : DemoUnavailable(i)
    /\ ~ProcessCycleRaised

\* C22: when no cycle produces data the run stops at the diagnostic, before
\* harmonization, cohort filter and export: no cohort file is written.
NoDataHalts ==
    NoCycleHasData =>
        /\ pc \in {"cycles", "no_data"}
        /\ cycle_i > NumCycles => all_data = <<>>
        /\ df = EmptyDataFrame
        /\ counts = <<>>
        /\ exported = <<>>

\* The run stopped at the diagnostic with a cycle directory that exists but
\* whose demographics file cannot be read
HaltedOnUnreadableDemo ==
    /\ pc = "no_data"
    /\ exported = <<>>
    /\ \E i \in 1..NumCycles :
           raw[i].exists /\ \E f \in Unreadable(i) : f.name = "DEMO"

\* df is the table Combine made, not yet changed
Combined ==
    \/ script = "process_data" /\ pc = "harmonize"
    \/ script = "build_cohort" /\ pc = "cohort"

\* The (SEQN, cycle) pairs of the demographics tables that have rows
DemoRecords ==
    UNION {{<<seqn, <<CYCLES[i]>> >> : seqn \in DemoParticipants(i)} :
           i \in {j \in 1..NumCycles : ~DemoUnavailable(j)}}

\* C23: a failed cycle load contributes no rows and does not stop the run: all
\* cycles are attempted before the tables are combined, the combined table
\* holds exactly the rows of the cycles that returned data, and when some cycle
\* returned data no exception ends the run before the export.
FailedLoadDoesNotStopRun ==
    /\ pc # "raised"
    /\ pc # "cycles" => cycle_i > NumCycles
    /\ \A i \in 1..(cycle_i - 1) : DemoUnavailable(i) => CycleRows(i) = {}
    /\ Combined =>
           /\ {<<r["SEQN"], r["cycle"]>> : r \in Rows(df)} = DemoRecords
           /\ len(df) = Cardinality(DemoRecords)

\* Each file of each cycle directory has at most one row per SEQN
OneRowPerSeqn ==
    \A i \in 1..NumCycles : \A k \in DOMAIN raw[i].files :
        LET t == load_xpt(raw[i].files[k])
        IN  "SEQN" \in t.cols =>
                \A m, n \in DOMAIN t.rows : t.rows[m]["SEQN"] = t.rows[n]["SEQN"] => m = n

\* C24: in the combined table every record has one cycle label, that of the
\* cycle whose demographics file lists it, and (SEQN, cycle) is unique when no
\* input file repeats a SEQN: a SEQN used by two cycles gives two records, each
\* with the demographics, the component values and the statin flag of its own
\* cycle's files.
OneRecordPerSeqnAndCycle ==
    (Combined /\ OneRowPerSeqn) =>
        /\ \A r \in Rows(df) :
               /\ \E i \in 1..NumCycles : r["cycle"] = <<CYCLES[i]>>
               /\ r["SEQN"] \in DemoParticipants(CycleOf(r))
               /\ \A c \in {"RIDAGEYR", "SDMVPSU", "LBXTC", "LBXTR", "LBXHSCRP", "WTSAF2YR"} :
                      get(df, r, c) = Raw(r, c)
               /\ get(df, r, StatinCol) = Num(1) <=> Raw(r, "RXDDRUG") = Num(ATORVASTATIN_CALCIUM_10MG)
        /\ {<<r["SEQN"], r["cycle"]>> : r \in Rows(df)} = DemoRecords
        /\ len(df) = Cardinality(DemoRecords)

\* A combined table in which two cycles use the same SEQN for participants who
\* differ in total cholesterol and in statin use
SeqnReusedSeen ==
    /\ Combined /\ OneRowPerSeqn
    /\ \E r1, r2 \in Rows(df) :
           /\ r1["SEQN"] = r2["SEQN"]
           /\ r1["cycle"] # r2["cycle"]
           /\ r1["LBXTC"] = Num(T(140)) /\ r2["LBXTC"] = Num(T(180))
           /\ r1[StatinCol] = Num(1) /\ r2[StatinCol] = Num(0)

\* The records that carry outcome flags: the cohort of 02_process_data.py, all
\* records of 02_build_cohort.py
FlagRecords == IF pc \in {"export", "done"} THEN Rows(df) ELSE {}

\* C25: the outcome flags are nested: rir_strict / rir_crp3 = 1 implies
\* rir = 1, rir_ldl55 = 1 implies rir = 1, and rir = 1 implies a statin user
\* with LDL-C below 70.
FlagsNested ==
    \A r \in FlagRecords :
        /\ r[StrictCol] = Num(1) => r["rir"] = Num(1)
        /\ r["rir_ldl55"] = Num(1) => r["rir"] = Num(1)
        /\ r["rir"] = Num(1) =>
               /\ r[StatinCol] = Num(1)
               /\ notna(r[LdlCol]) /\ Val(r[LdlCol]) < T(70)

\* A cohort of 02_process_data.py with a record that has all three flags, one
\* that has rir alone, and one that has none
NestedFlagsSeen ==
    /\ CohortMade
    /\ \E r \in FlagRecords :
           r["rir"] = Num(1) /\ r["rir_strict"] = Num(1) /\ r["rir_ldl55"] = Num(1)
    /\ \E r \in FlagRecords :
           r["rir"] = Num(1) /\ r["rir_strict"] = Num(0) /\ r["rir_ldl55"] = Num(0)

\* C26: every per-cycle table process_cycle returned has the statin flag
\* column, 0 or 1 in every row, whatever the state of the prescription file;
\* the cohort filter's statin step then meets no missing column and removes
\* no whole cycle.
StatinFlagAlwaysMade ==
    /\ \A k \in DOMAIN all_data :
           /\ StatinCol \in all_data[k].cols
           /\ \A r \in Rows(all_data[k]) : r[StatinCol] \in {Num(0), Num(1)}
    /\ (script = "process_data" /\ pc = "cohort") =>
           /\ "statin_user" \in df.cols
           /\ \A i \in 1..NumCycles :
                  (\E r \in Rows(AfterStep(df, 3)) : CycleOf(r) = i) =>
                  (\E r \in Rows(AfterStep(df, 4)) : CycleOf(r) = i)

\* The record is in the primary cohort of 02_process_data.py
InPrimaryCohort(r) == r["statin_user"] = Num(1) /\ r["ldl_under_70"] = Num(1)

\* The surviving records of 02_process_data.py
Survivors == IF CohortMade THEN Rows(df) ELSE {}

\* C27: for every surviving record ldl_statin_group = 1 exactly when the
\* record is in the primary cohort (statin_user = 1 and ldl_under_70 = 1),
\* also at LDL-C = 70.
GroupOneIffPrimaryCohort ==
    \A r \in Survivors : r["ldl_statin_group"] = Num(1) <=> InPrimaryCohort(r)

\* C27, amended: ldl_statin_group = 1 exactly when the record is in the
\* primary cohort or is a statin user with LDL-C equal to 70, who is in group 1
\* (LDL-C <= 70) and outside the primary cohort (LDL-C < 70).
GroupOneIffPrimaryCohortOrAt70 ==
    \A r \in Survivors :
        /\ r["ldl_statin_group"] = Num(1) <=>
               \/ InPrimaryCohort(r)
               \/ r["statin_user"] = Num(1) /\ r["ldl_calc"] = Num(T(70))
        /\ r["ldl_calc"] = Num(T(70)) => ~InPrimaryCohort(r)

\* Surviving statin users at LDL-C 70 (group 1, not in the primary cohort) and
\* at LDL-C 60 (group 1, in the primary cohort)
GroupOneAt70Seen ==
    /\ \E r \in Survivors :
           /\ r["ldl_calc"] = Num(T(70)) /\ r["statin_user"] = Num(1)
           /\ r["ldl_statin_group"] = Num(1) /\ r["ldl_under_70"] = Num(0)
    /\ \E r \in Survivors :
           /\ r["ldl_calc"] = Num(T(60)) /\ r["statin_user"] = Num(1)
           /\ r["ldl_statin_group"] = Num(1) /\ r["ldl_under_70"] = Num(1)

=============================================================================
